---- MODULE Spec2Model ----
(***************************************************************************)
(* Board synchronisation engine of trello-kanban-clean:                    *)
(*   - the durable store (SQLite tables lists / cards / card_actions       *)
(*     behind the express routes of server.ts and DatabaseService),        *)
(*   - the useDatabaseBoardState hook of every open tab (in-memory         *)
(*     snapshot `lists`, lastUpdate, isLoading, error, fallback cache),    *)
(*   - the drag-and-drop handlers and the role filter of KanbanBoard.      *)
(* Every `await apiClient.x(...)` of a hook operation is one step: the     *)
(* server handles the request atomically (or the request fails because     *)
(* the store is unreachable) and the code up to the next await runs.       *)
(***************************************************************************)
EXTENDS Integers, Sequences, FiniteSets, TLC

\* ---------------------------------------------------------------- bounds
MaxNewCards == 1
MaxActions == 2
MaxInFlight == 1
MaxClock == 2
MaxExternal == 2
MaxIntents == 2

\* operations of the hook in flight at once when mutations overlap
MaxOverlap == 2

\* ------------------------------------------------------------ vocabulary
NULL == "null"

Tabs == {"A", "B"}

Roles == {"default", "mod", "admin"}

ListTypes == {"open", "closed", "hidden"}

Titles == {"T1", "T2"}

\* the board the deployment starts from: one column of each visibility
InitialLists ==
  << [id |-> "L1", title |-> "To Do", type |-> "open",
      cards |-> << [id |-> "c1", title |-> "T1", actions |-> << >>],
                   [id |-> "c2", title |-> "T1", actions |-> << >>] >>],
     [id |-> "L2", title |-> "Staff Planning", type |-> "closed",
      cards |-> << [id |-> "c3", title |-> "T1", actions |-> << >>] >>],
     [id |-> "L3", title |-> "Admin", type |-> "hidden", cards |-> << >>] >>

ListIds == {"L1", "L2", "L3"}

\* ids addCard generates (card_<Date.now()>_<random>), in order of creation
NewCardIdSeq == << "n1", "n2", "n3" >>

NewCardIds == {"n1", "n2", "n3"}

CardIds == {"c1", "c2", "c3"} \cup NewCardIds

\* the value pushed into card.actions when createAction returned null
NoDetails == [field |-> NULL]

NullAction ==
  [id |-> 0, cardId |-> NULL, userId |-> NULL, username |-> NULL, action |-> NULL,
   details |-> NoDetails, shape |-> "null"]

NoStored == [present |-> FALSE, parses |-> TRUE, value |-> << >>]

\* the item holding text that JSON.parse rejects
MalformedStored == [present |-> TRUE, parses |-> FALSE, value |-> << >>]

\* what the browser's storage can hold as 'auth_token' (absent, not
\* decodable, or a JWT whose payload has or lacks userId and username) and
\* as 'discord_user' (absent, not JSON, or an object with or without id,
\* username, global_name, display_name)
NoToken == [kind |-> "none", userId |-> NULL, username |-> NULL]

AuthTokens ==
  {NoToken, [NoToken EXCEPT !.kind = "malformed"]}
    \cup [kind : {"jwt"}, userId : {NULL, "u1"}, username : {NULL, "alice"}]

NoDiscordUser ==
  [kind |-> "none", id |-> NULL, username |-> NULL, global_name |-> NULL,
   display_name |-> NULL]

DiscordUsers ==
  {NoDiscordUser, [NoDiscordUser EXCEPT !.kind = "malformed"]}
    \cup [kind : {"json"}, id : {NULL, "d1"}, username : {NULL, "alice"},
          global_name : {NULL, "Alice G"}, display_name : {NULL, "Ali"}]

AuthStorages == [token : AuthTokens, user : DiscordUsers]

\* the storage of a viewer signed in with a complete token, and of one who
\* is not signed in
SignedIn ==
  [token |-> [kind |-> "jwt", userId |-> "u1", username |-> "alice"],
   user |-> NoDiscordUser]

SignedOut == [token |-> NoToken, user |-> NoDiscordUser]

VARIABLES
  dbLists,      \* rows of table lists: [id, title, type, position]
  dbCards,      \* rows of table cards: [id, list_id, title, position]
  dbActions,    \* rows of table card_actions
  storeUp,      \* the durable store answers requests
  settings,     \* keys of table settings that hold a value
  uploads,      \* number of files in uploads/attachments
  lists,        \* per tab: useState lists (the in-memory snapshot)
  lastUpdate,   \* per tab: useState lastUpdate
  isLoading,    \* per tab: useState isLoading
  error,        \* per tab: useState error
  tasks,        \* per tab: hook operations suspended at an await
  localStorage, \* item 'trello_board_state' (shared by the origin's tabs)
  role,         \* role of the viewer, resolved once per session
  isAuthenticated, \* useDiscordAuth().isAuthenticated
  authStorage,     \* the storage items 'auth_token' and 'discord_user'
  dispatched,   \* per window: last 'board-updated' CustomEvent dispatched
  now,          \* Date.now()
  nextId,       \* number of action ids generated so far
  created,      \* number of card ids generated so far
  lastReq,      \* per tab: outcome of the last completed store request
  rejected,     \* hook operations whose promise rejected
  dragEvent,    \* last drag event handled by KanbanBoard
  external,     \* writes made to the store by other viewers so far
  intents,      \* viewer intents handled so far
  failedAttempts, \* discordAuth: let failedAttempts
  lastFailTime,   \* discordAuth: let lastFailTime
  usedAuthCodes,  \* discordAuth: const usedAuthCodes
  fetches,        \* POST /api/discord-auth requests issued, with their outcome
  timers,         \* pending setTimeout callbacks of exchangeDiscordCode
  lastCall,       \* the last exchangeDiscordCode call and how it ended so far
  actionCache,    \* LocalActionStorage.cache[cardId] of the open card
  merged,         \* the last mergeWithApiActions call: inputs and value returned
  shown           \* the last CardHistory render: prop actions and sortedActions

vars == << dbLists, dbCards, dbActions, storeUp, settings, uploads, lists, lastUpdate,
           isLoading, error, tasks, localStorage, role, isAuthenticated, authStorage,
           dispatched, now, nextId, created, lastReq, rejected, dragEvent, external,
           intents, failedAttempts, lastFailTime, usedAuthCodes, fetches, timers,
           lastCall, actionCache, merged, shown >>

dbVars == << dbLists, dbCards, dbActions >>

discordAuthVars ==
  << failedAttempts, lastFailTime, usedAuthCodes, fetches, timers, lastCall >>

localActionVars == << actionCache, merged, shown >>

\* --------------------------------------------------------------- helpers
Range(s) == {s[i] : i \in 1..Len(s)}

RECURSIVE SeqsOf(_)
\* every enumeration of the finite set S without repetition
SeqsOf(S) ==
  IF S = {} THEN {<< >>}
  ELSE UNION {{<<x>> \o s : s \in SeqsOf(S \ {x})} : x \in S}

\* Array.prototype.findIndex, 0-based, -1 when absent
FindIndex(s, P(_)) ==
  IF \E i \in 1..Len(s) : P(s[i])
  THEN (CHOOSE i \in 1..Len(s) : P(s[i]) /\ \A j \in 1..(i - 1) : ~P(s[j])) - 1
  ELSE -1

\* Array.prototype.filter
Filter(s, P(_)) == SelectSeq(s, P)

\* Array.prototype.splice(start, 0, item) on a copy; start is clamped as
\* JavaScript clamps it (negative counts from the end)
Splice(s, start, item) ==
  LET n == Len(s)
      k == IF start < 0 THEN (IF n + start < 0 THEN 0 ELSE n + start)
           ELSE IF start > n THEN n ELSE start
  IN  SubSeq(s, 1, k) \o <<item>> \o SubSeq(s, k + 1, n)

\* lists.flatMap(list => list.cards)
RECURSIVE FlatCards(_)
FlatCards(ls) ==
  IF ls = << >> THEN << >> ELSE Head(ls).cards \o FlatCards(Tail(ls))

HasCard(list, cardId) == \E i \in 1..Len(list.cards) : list.cards[i].id = cardId

\* lists.find(list => list.cards.some(card => card.id === cardId)): index or 0
FindListOfCard(ls, cardId) ==
  FindIndex(ls, LAMBDA l : HasCard(l, cardId)) + 1

\* lists.find(list => list.id === listId): index or 0
FindListById(ls, listId) ==
  FindIndex(ls, LAMBDA l : l.id = listId) + 1

\* ------------------------------------------------- the durable store
\* result of a request the server could not serve (or that never arrived)
Failed == [ok |-> FALSE, lists |-> {}, cards |-> {}, actions |-> {}]

Done(L, C, A) == [ok |-> TRUE, lists |-> L, cards |-> C, actions |-> A]

\* ids of a snapshot's columns / cards, with repetitions
ListIdSeq(ls) == [i \in 1..Len(ls) |-> ls[i].id]

CardIdSeq(ls) == LET cs == FlatCards(ls) IN [i \in 1..Len(cs) |-> cs[i].id]

NoDup(s) == \A i, j \in 1..Len(s) : i # j => s[i] # s[j]

ListRows(ls) ==
  {[id |-> ls[i].id, title |-> ls[i].title, type |-> ls[i].type,
    position |-> i - 1] : i \in 1..Len(ls)}

CardRows(ls) ==
  UNION {{[id |-> ls[i].cards[j].id, list_id |-> ls[i].id,
           title |-> ls[i].cards[j].title, position |-> j - 1]
          : j \in 1..Len(ls[i].cards)} : i \in 1..Len(ls)}

\* DatabaseService.saveKanbanData in one transaction: every card and column
\* of the board is deleted (card_actions rows go with their cards, ON DELETE
\* CASCADE) and the given columns and cards are inserted with position =
\* index; a repeated primary key aborts the transaction
SaveKanbanData(L, C, A, newLists) ==
  IF NoDup(ListIdSeq(newLists)) /\ NoDup(CardIdSeq(newLists))
  THEN Done(ListRows(newLists), CardRows(newLists), {})
  ELSE Failed

\* DatabaseService.createCard behind POST /api/cards (position || 0); the
\* insert needs an existing column (foreign key) and a fresh primary key
CreateCard(L, C, A, card) ==
  IF (\E l \in L : l.id = card.list_id) /\ ~(\E c \in C : c.id = card.id)
  THEN Done(L, C \cup {card}, A)
  ELSE Failed

\* DatabaseService.updateCard behind PUT /api/cards/:cardId:
\* COALESCE(?, column) for every column; `updates` holds the fields the
\* request body carries.  The route answers success also when no row has the
\* id; a list_id that names no column violates the foreign key
UpdateCardRow(L, C, A, id, updates) ==
  LET F == DOMAIN updates
  IN  IF "list_id" \in F /\ (\E c \in C : c.id = id)
         /\ ~(\E l \in L : l.id = updates.list_id)
      THEN Failed
      ELSE Done(L,
                {IF c.id = id
                 THEN [id |-> c.id,
                       title |-> IF "title" \in F THEN updates.title ELSE c.title,
                       list_id |-> IF "list_id" \in F THEN updates.list_id
                                   ELSE c.list_id,
                       position |-> IF "position" \in F THEN updates.position
                                    ELSE c.position]
                 ELSE c : c \in C},
                A)

\* DatabaseService.deleteCard behind DELETE /api/cards/:cardId: the answer is
\* { success: changes > 0 }, which the client turns into an exception when
\* no row was deleted; card_actions rows of the card go with it
DeleteCardRow(L, C, A, id) ==
  IF \E c \in C : c.id = id
  THEN Done(L, {c \in C : c.id # id}, {a \in A : a.cardId # id})
  ELSE Failed

\* DELETE FROM lists WHERE id = ? as it would run without foreign-key
\* enforcement: the column's row alone is removed
DeleteListNoCascade(L, C, A, id) ==
  IF \E l \in L : l.id = id
  THEN Done({l \in L : l.id # id}, C, A)
  ELSE Failed

\* DatabaseService.deleteList behind DELETE /api/lists/:listId: the column's
\* row is removed, its cards go with it (cards.list_id ON DELETE CASCADE)
\* and their records with them (card_actions.card_id ON DELETE CASCADE);
\* better-sqlite3 opens every connection with foreign keys enforced
DeleteList(L, C, A, id) ==
  IF \E l \in L : l.id = id
  THEN LET gone == {c.id : c \in {c \in C : c.list_id = id}}
       IN  Done({l \in L : l.id # id},
                {c \in C : c.list_id # id},
                {a \in A : a.cardId \notin gone})
  ELSE Failed

\* the row the API returns for a stored action (snake_case columns, details
\* parsed back from its JSON text)
ActionRow(a) == [a EXCEPT !.shape = "row"]

\* DatabaseService.createCardAction behind POST /api/card-actions
CreateCardAction(L, C, A, a) ==
  IF (\E c \in C : c.id = a.cardId) /\ ~(\E b \in A : b.id = a.id)
  THEN Done(L, C, A \cup {ActionRow(a)})
  ELSE Failed

\* sequences of the rows S in ascending position; rows of equal position
\* come in an order the query does not determine
SortedBy(S) ==
  {s \in SeqsOf(S) : \A i \in 1..(Len(s) - 1) : s[i].position <= s[i + 1].position}

\* DatabaseService.convertCardRowToKanbanCard (no actions yet)
convertCardRowToKanbanCard(row) ==
  [id |-> row.id, title |-> row.title, actions |-> << >>]

\* DatabaseService.getListsByBoard: the results the query can produce
GetListsByBoard(L, C) ==
  LET CardsOf(l) == {c \in C : c.list_id = l}
      Ids == {l.id : l \in L}
      AllOrders == UNION {SortedBy(CardsOf(l)) : l \in Ids}
      CardOrders == {co \in [Ids -> AllOrders] :
                       \A l \in Ids : co[l] \in SortedBy(CardsOf(l))}
  IN  UNION {{[i \in 1..Len(lo) |->
                 [id |-> lo[i].id, title |-> lo[i].title, type |-> lo[i].type,
                  cards |-> [j \in 1..Len(co[lo[i].id]) |->
                               convertCardRowToKanbanCard(co[lo[i].id][j])]]]
              : co \in CardOrders} : lo \in SortedBy(L)}

\* DatabaseService.getCardActions: ORDER BY timestamp DESC; ids are issued in
\* creation order, so the newest row has the largest id
RECURSIVE GetCardActions(_, _)
GetCardActions(A, cardId) ==
  LET S == {a \in A : a.cardId = cardId}
  IN  IF S = {} THEN << >>
      ELSE LET m == CHOOSE a \in S : \A b \in S : b.id <= a.id
           IN  <<m>> \o GetCardActions(A \ {m}, cardId)

\* loadCardActions: per card, the stored actions when the request succeeds
\* and returns some, otherwise the actions the card already carries
loadCardActions(ls, A, up) ==
  [i \in 1..Len(ls) |->
     [ls[i] EXCEPT !.cards =
        [j \in 1..Len(ls[i].cards) |->
           LET card == ls[i].cards[j]
               got == GetCardActions(A, card.id)
           IN  [card EXCEPT !.actions =
                  IF up /\ got # << >> THEN got ELSE card.actions]]]]

\* ------------------------------------------------------ action ledger
\* getCurrentUser: the actor read from the browser's storage, or null
NoUser == [id |-> NULL, username |-> NULL]

\* the first of the names that is set, as a || b || c || 'Utente' gives it
FirstName(a, b, c) ==
  IF a # NULL THEN a ELSE IF b # NULL THEN b ELSE IF c # NULL THEN c ELSE "Utente"

\* getCurrentUser for a decoded 'auth_token' and a parsed 'discord_user'
\* item: the token's payload when it has userId and username, otherwise
\* the legacy user with `discord_${user.id}` for a missing id and the
\* first name that is set, otherwise null
ResolveUser(token, user) ==
  IF token.kind = "jwt" /\ token.userId # NULL /\ token.username # NULL
  THEN [id |-> token.userId, username |-> token.username]
  ELSE IF user.kind = "json"
       THEN [id |-> IF user.id # NULL THEN user.id ELSE "discord_undefined",
             username |-> FirstName(user.username, user.global_name, user.display_name)]
       ELSE NoUser

getCurrentUser == ResolveUser(authStorage.token, authStorage.user)

\* createAction: null without an actor, otherwise a record with a fresh id
createAction(cardId, action, details) ==
  IF getCurrentUser = NoUser THEN NullAction
  ELSE [id |-> nextId + 1, cardId |-> cardId, userId |-> getCurrentUser.id,
        username |-> getCurrentUser.username,
        action |-> action, details |-> details, shape |-> "local"]

logCardCreated(cardId) == createAction(cardId, "created", NoDetails)

logCardMoved(cardId, fromList, toList) ==
  createAction(cardId, "moved", [from |-> fromList, to |-> toList])

logCardEdited(cardId, field, oldValue, newValue) ==
  createAction(cardId, "edited",
               [field |-> field, oldValue |-> oldValue, newValue |-> newValue])

logCardDeleted(cardId) == createAction(cardId, "deleted", NoDetails)

\* ids consumed by an action that was (or was not) created
IdsAfter(act) == IF act = NullAction THEN nextId ELSE nextId + 1

\* ------------------------------------------------- hook: shared pieces
\* a hook operation suspended at its first await; `lists` is the snapshot its
\* closure captured when the callback was created
NewTask(t, op, pc) ==
  [op |-> op, pc |-> pc, lists |-> lists[t], cardId |-> NULL, listId |-> NULL,
   position |-> 0, title |-> NULL, acts |-> << >>, buf |-> << >>]

\* the hook's operations in flight; a request Index sends without awaiting
\* it ("logAction") is not one of them
InFlightRoom(t) == Cardinality({k \in tasks[t] : k.op # "logAction"}) < MaxInFlight

\* a viewer intent (a drag event, a confirmed dialog, a direct call) can be
\* handled, and an operation it starts has room
CanHandle == intents < MaxIntents

CanStart(t) == InFlightRoom(t) /\ CanHandle

Start(t, task) == [tasks EXCEPT ![t] = @ \cup {task}]

Replace(t, old, new) == [tasks EXCEPT ![t] = (@ \ {old}) \cup {new}]

Finish(t, old) == [tasks EXCEPT ![t] = @ \ {old}]

\* cards.map(card => card.id === cardId ? {...card, actions: [...actions, a]}
\* : card) on the column `listId` (on every column when listId = NULL); `more`
\* is the array spread into the card's actions
AppendActions(ls, listId, cardId, more) ==
  [i \in 1..Len(ls) |->
     IF listId = NULL \/ ls[i].id = listId
     THEN [ls[i] EXCEPT !.cards =
             [j \in 1..Len(ls[i].cards) |->
                IF ls[i].cards[j].id = cardId
                THEN [ls[i].cards[j] EXCEPT !.actions = @ \o more]
                ELSE ls[i].cards[j]]]
     ELSE ls[i]]

Init ==
  /\ dbLists = ListRows(InitialLists)
  /\ dbCards = CardRows(InitialLists)
  /\ dbActions = {}
  /\ storeUp = TRUE
  /\ settings = {}
  /\ uploads = 0
  /\ lists = [t \in Tabs |-> InitialLists]
  /\ lastUpdate = [t \in Tabs |-> 0]
  /\ isLoading = [t \in Tabs |-> FALSE]
  /\ error = [t \in Tabs |-> NULL]
  /\ tasks = [t \in Tabs |-> {}]
  /\ localStorage = NoStored
  /\ role \in Roles
  /\ isAuthenticated \in BOOLEAN
  /\ authStorage \in AuthStorages
  /\ dispatched = [t \in Tabs |-> [present |-> FALSE, lists |-> << >>, timestamp |-> 0]]
  /\ now = 1
  /\ nextId = 0
  /\ created = 0
  /\ lastReq = [t \in Tabs |-> "none"]
  /\ rejected = {}
  /\ dragEvent = [handler |-> "none", tab |-> NULL, active |-> NULL, over |-> NULL]
  /\ external = 0
  /\ intents = 0
  /\ failedAttempts = 0
  /\ lastFailTime = 0
  /\ usedAuthCodes = {}
  /\ fetches = {}
  /\ timers = {}
  /\ lastCall = [n |-> 0, code |-> NULL, thrown |-> "none"]
  /\ actionCache = << >>
  /\ merged = [n |-> 0, localActions |-> << >>, apiActions |-> << >>, result |-> << >>]
  /\ shown = [actions |-> << >>, sortedActions |-> << >>]

\* ------------------------------------------ hook: updateCardPosition
\* the call: oldList / newList are looked up in the captured snapshot and the
\* PUT /api/cards/:cardId request is issued
CallUpdateCardPosition(t, cardId, newListId, newPosition) ==
  Start(t, [NewTask(t, "updateCardPosition", "updateCard") EXCEPT
              !.cardId = cardId, !.listId = newListId, !.position = newPosition])

\* updateCardPosition(cardId, newListId, newPosition) called on the hook
updateCardPosition(t, cardId, newListId, newPosition) ==
  /\ CanHandle
  /\ CanStart(t)
  /\ nextId < MaxActions
  /\ tasks' = CallUpdateCardPosition(t, cardId, newListId, newPosition)
  /\ intents' = intents + 1
  /\ UNCHANGED << dbVars, storeUp, settings, lists, lastUpdate, isLoading, error, localStorage,
                  role, isAuthenticated, uploads,
                  discordAuthVars, localActionVars, authStorage, dispatched, now, nextId, created,
                  lastReq, rejected, dragEvent, external >>

\* the catch block names oldList and newList, which are declared by const
\* inside the try block: evaluating the first condition raises a
\* ReferenceError, so the fallback below it never runs and the promise the
\* operation returned is rejected
updateCardPositionCatch(t, task) ==
  /\ tasks' = Finish(t, task)
  /\ rejected' = rejected \cup {"updateCardPosition"}
  /\ UNCHANGED << lists, lastUpdate, error, localStorage, nextId >>

\* await apiClient.updateCard(cardId, { list_id, position }) and the code up
\* to the next await
updateCardPosition_updateCard(t, task) ==
  /\ task \in tasks[t] /\ task.op = "updateCardPosition" /\ task.pc = "updateCard"
  /\ LET r == IF storeUp
              THEN UpdateCardRow(dbLists, dbCards, dbActions, task.cardId,
                                 [list_id |-> task.listId, position |-> task.position])
              ELSE Failed
         o == FindListOfCard(task.lists, task.cardId)
         n == FindListById(task.lists, task.listId)
     IN  /\ lastReq' = [lastReq EXCEPT ![t] = IF r.ok THEN "ok" ELSE "fail"]
         /\ IF r.ok
            THEN /\ dbLists' = r.lists /\ dbCards' = r.cards /\ dbActions' = r.actions
                 /\ IF o # 0 /\ n # 0 /\ task.lists[o].id # task.listId
                    THEN LET moveAction == logCardMoved(task.cardId, task.lists[o].title,
                                                        task.lists[n].title)
                         IN  /\ nextId' = IdsAfter(moveAction)
                             /\ IF moveAction # NullAction
                                THEN /\ tasks' = Replace(t, task,
                                            [task EXCEPT !.pc = "createCardAction",
                                                         !.acts = <<moveAction>>])
                                     /\ UNCHANGED lists
                                ELSE /\ lists' = [lists EXCEPT ![t] = task.lists]
                                     /\ tasks' = Replace(t, task,
                                            [task EXCEPT !.pc = "getListsByBoard"])
                    ELSE /\ tasks' = Replace(t, task, [task EXCEPT !.pc = "getListsByBoard"])
                         /\ UNCHANGED << lists, nextId >>
                 /\ UNCHANGED << lastUpdate, error, localStorage, rejected >>
            ELSE /\ updateCardPositionCatch(t, task)
                 /\ UNCHANGED dbVars
  /\ UNCHANGED << storeUp, settings, isLoading, role, isAuthenticated, uploads,
                  discordAuthVars, localActionVars, authStorage, dispatched,
                  now, created, dragEvent, external, intents >>

\* await apiClient.createCardAction(moveAction) inside its own try/catch,
\* then setLists(updatedLists): the captured snapshot with the action
\* appended to the card where the destination column holds it
updateCardPosition_createCardAction(t, task) ==
  /\ task \in tasks[t] /\ task.op = "updateCardPosition" /\ task.pc = "createCardAction"
  /\ LET r == IF storeUp THEN CreateCardAction(dbLists, dbCards, dbActions, task.acts[1])
              ELSE Failed
     IN  /\ lastReq' = [lastReq EXCEPT ![t] = IF r.ok THEN "ok" ELSE "fail"]
         /\ dbActions' = IF r.ok THEN r.actions ELSE dbActions
  /\ lists' = [lists EXCEPT ![t] =
                 AppendActions(task.lists, task.listId, task.cardId, task.acts)]
  /\ tasks' = Replace(t, task, [task EXCEPT !.pc = "getListsByBoard"])
  /\ UNCHANGED << dbLists, dbCards, storeUp, settings, lastUpdate, isLoading, error,
                  localStorage, role, isAuthenticated, uploads,
                  discordAuthVars, localActionVars, authStorage, dispatched, now,
                  nextId, created, rejected, dragEvent, external, intents >>

\* ------------------------------------- hook: reload after a mutation
\* the operations that end with "Reload lists from database"
ReloadOps ==
  {"updateCardPosition", "addCard", "updateCard", "deleteCard", "updateListPosition"}

\* the catch block of addCard, updateCard and deleteCard: setError(message)
setErrorCatch(t, task) ==
  /\ tasks' = Finish(t, task)
  /\ error' = [error EXCEPT ![t] = "API request failed"]
  /\ UNCHANGED << lists, lastUpdate, localStorage, nextId, rejected >>

\* await apiClient.getListsByBoard(DEFAULT_BOARD_ID) of the reload
reload_getListsByBoard(t, task) ==
  /\ task \in tasks[t] /\ task.op \in ReloadOps /\ task.pc = "getListsByBoard"
  /\ lastReq' = [lastReq EXCEPT ![t] = IF storeUp THEN "ok" ELSE "fail"]
  /\ IF storeUp
     THEN /\ \E finalLists \in GetListsByBoard(dbLists, dbCards) :
               tasks' = Replace(t, task, [task EXCEPT !.pc = "loadCardActions",
                                                      !.buf = finalLists])
          /\ UNCHANGED << lists, lastUpdate, error, localStorage, nextId, rejected >>
     ELSE IF task.op = "updateCardPosition"
          THEN updateCardPositionCatch(t, task)
          ELSE setErrorCatch(t, task)
  /\ UNCHANGED << dbVars, storeUp, settings, isLoading, role, isAuthenticated, uploads,
                  discordAuthVars, localActionVars, authStorage,
                  dispatched, now, created, dragEvent, external, intents >>

\* await loadCardActions(finalLists); setLists(finalListsWithActions);
\* setLastUpdate(Date.now())
reload_loadCardActions(t, task) ==
  /\ task \in tasks[t] /\ task.op \in ReloadOps /\ task.pc = "loadCardActions"
  /\ lastReq' = [lastReq EXCEPT ![t] =
                   IF FlatCards(task.buf) = << >> THEN @
                   ELSE IF storeUp THEN "ok" ELSE "fail"]
  /\ lists' = [lists EXCEPT ![t] = loadCardActions(task.buf, dbActions, storeUp)]
  /\ lastUpdate' = [lastUpdate EXCEPT ![t] = now]
  /\ tasks' = Finish(t, task)
  /\ UNCHANGED << dbVars, storeUp, settings, isLoading, error, localStorage, role,
                  isAuthenticated, uploads,
                  discordAuthVars, localActionVars, authStorage, dispatched, now, nextId, created,
                  rejected, dragEvent, external, intents >>

\* ------------------------------------------------------- hook: addCard
\* the call: a fresh card id, position = length of the column in the
\* captured snapshot (0 when the column is not in it), POST /api/cards issued
CallAddCard(t, listId, title) ==
  LET l == FindListById(lists[t], listId)
  IN  Start(t, [NewTask(t, "addCard", "createCard") EXCEPT
                  !.cardId = NewCardIdSeq[created + 1], !.listId = listId,
                  !.title = title,
                  !.position = IF l = 0 THEN 0 ELSE Len(lists[t][l].cards)])

\* await apiClient.createCard(...) then logCardCreated; without an actor the
\* operation returns here, leaving the snapshot as it was
addCard_createCard(t, task) ==
  /\ task \in tasks[t] /\ task.op = "addCard" /\ task.pc = "createCard"
  /\ LET r == IF storeUp
              THEN CreateCard(dbLists, dbCards, dbActions,
                              [id |-> task.cardId, list_id |-> task.listId,
                               title |-> task.title, position |-> task.position])
              ELSE Failed
         createAction_ == logCardCreated(task.cardId)
     IN  /\ lastReq' = [lastReq EXCEPT ![t] = IF r.ok THEN "ok" ELSE "fail"]
         /\ IF r.ok
            THEN /\ dbLists' = r.lists /\ dbCards' = r.cards /\ dbActions' = r.actions
                 /\ nextId' = IdsAfter(createAction_)
                 /\ tasks' = IF createAction_ = NullAction THEN Finish(t, task)
                             ELSE Replace(t, task,
                                    [task EXCEPT !.pc = "createCardAction",
                                                 !.acts = <<createAction_>>])
                 /\ UNCHANGED << lists, lastUpdate, error, localStorage, rejected >>
            ELSE /\ setErrorCatch(t, task)
                 /\ UNCHANGED dbVars
  /\ UNCHANGED << storeUp, settings, isLoading, role, isAuthenticated, uploads,
                  discordAuthVars, localActionVars, authStorage, dispatched,
                  now, created, dragEvent, external, intents >>

\* await apiClient.createCardAction(createAction) inside its own try/catch,
\* then setLists(updatedLists): the captured snapshot with the new card
\* appended to its column
addCard_createCardAction(t, task) ==
  /\ task \in tasks[t] /\ task.op = "addCard" /\ task.pc = "createCardAction"
  /\ LET r == IF storeUp THEN CreateCardAction(dbLists, dbCards, dbActions, task.acts[1])
              ELSE Failed
         newCard == [id |-> task.cardId, title |-> task.title, actions |-> task.acts]
     IN  /\ lastReq' = [lastReq EXCEPT ![t] = IF r.ok THEN "ok" ELSE "fail"]
         /\ dbActions' = IF r.ok THEN r.actions ELSE dbActions
         /\ lists' = [lists EXCEPT ![t] =
                        [i \in 1..Len(task.lists) |->
                           IF task.lists[i].id = task.listId
                           THEN [task.lists[i] EXCEPT !.cards = Append(@, newCard)]
                           ELSE task.lists[i]]]
  /\ tasks' = Replace(t, task, [task EXCEPT !.pc = "getListsByBoard"])
  /\ UNCHANGED << dbLists, dbCards, storeUp, settings, lastUpdate, isLoading, error,
                  localStorage, role, isAuthenticated, uploads,
                  discordAuthVars, localActionVars, authStorage, dispatched, now,
                  nextId, created, rejected, dragEvent, external, intents >>

\* ---------------------------------------------------- hook: deleteCard
\* the call: logCardDeleted, setLists with the action pushed onto the card
\* (null included when there is no actor), DELETE /api/cards/:cardId issued
deleteCard(t, cardId) ==
  /\ CanStart(t)
  /\ LET deleteAction == logCardDeleted(cardId)
     IN  /\ nextId' = IdsAfter(deleteAction)
         /\ lists' = [lists EXCEPT ![t] =
                        AppendActions(lists[t], NULL, cardId, <<deleteAction>>)]
  /\ tasks' = Start(t, [NewTask(t, "deleteCard", "deleteCard") EXCEPT !.cardId = cardId])
  /\ intents' = intents + 1
  /\ UNCHANGED << dbVars, storeUp, settings, lastUpdate, isLoading, error, localStorage, role,
                  isAuthenticated, uploads,
                  discordAuthVars, localActionVars, authStorage, dispatched, now, created, lastReq,
                  rejected, dragEvent, external >>

\* await apiClient.deleteCard(cardId)
deleteCard_deleteCard(t, task) ==
  /\ task \in tasks[t] /\ task.op = "deleteCard" /\ task.pc = "deleteCard"
  /\ LET r == IF storeUp THEN DeleteCardRow(dbLists, dbCards, dbActions, task.cardId)
              ELSE Failed
     IN  /\ lastReq' = [lastReq EXCEPT ![t] = IF r.ok THEN "ok" ELSE "fail"]
         /\ IF r.ok
            THEN /\ dbLists' = r.lists /\ dbCards' = r.cards /\ dbActions' = r.actions
                 /\ tasks' = Replace(t, task, [task EXCEPT !.pc = "getListsByBoard"])
                 /\ UNCHANGED << lists, lastUpdate, error, localStorage, nextId, rejected >>
            ELSE /\ setErrorCatch(t, task)
                 /\ UNCHANGED dbVars
  /\ UNCHANGED << storeUp, settings, isLoading, role, isAuthenticated, uploads,
                  discordAuthVars, localActionVars, authStorage, dispatched,
                  now, created, dragEvent, external, intents >>

\* ---------------------------------------------------- hook: updateCard
\* the call with updates = { title }: the 'edited' action is built when the
\* title differs from the card's title in the captured snapshot and kept in
\* the local array `actions`; PUT /api/cards/:cardId issued
updateCard(t, cardId, title) ==
  /\ CanStart(t)
  /\ nextId < MaxActions
  /\ LET cs == FlatCards(lists[t])
         k == FindIndex(cs, LAMBDA c : c.id = cardId) + 1
         changed == k # 0 /\ title # cs[k].title
         edited == logCardEdited(cardId, "title", cs[k].title, title)
     IN  /\ nextId' = IF changed THEN IdsAfter(edited) ELSE nextId
         /\ tasks' = Start(t, [NewTask(t, "updateCard", "updateCard") EXCEPT
                                 !.cardId = cardId, !.title = title,
                                 !.acts = IF changed THEN <<edited>> ELSE << >>])
  /\ intents' = intents + 1
  /\ UNCHANGED << dbVars, storeUp, settings, lists, lastUpdate, isLoading, error, localStorage,
                  role, isAuthenticated, uploads,
                  discordAuthVars, localActionVars, authStorage, dispatched, now, created, lastReq,
                  rejected, dragEvent, external >>

\* await apiClient.updateCard(cardId, { title, ... }); when actions were
\* built, setLists of the captured snapshot with the card updated and the
\* actions appended to it
updateCard_updateCard(t, task) ==
  /\ task \in tasks[t] /\ task.op = "updateCard" /\ task.pc = "updateCard"
  /\ LET r == IF storeUp
              THEN UpdateCardRow(dbLists, dbCards, dbActions, task.cardId,
                                 [title |-> task.title])
              ELSE Failed
     IN  /\ lastReq' = [lastReq EXCEPT ![t] = IF r.ok THEN "ok" ELSE "fail"]
         /\ IF r.ok
            THEN /\ dbLists' = r.lists /\ dbCards' = r.cards /\ dbActions' = r.actions
                 /\ lists' = [lists EXCEPT ![t] =
                      IF task.acts = << >> THEN @
                      ELSE [i \in 1..Len(task.lists) |->
                              [task.lists[i] EXCEPT !.cards =
                                 [j \in 1..Len(task.lists[i].cards) |->
                                    LET card == task.lists[i].cards[j]
                                    IN  IF card.id = task.cardId
                                        THEN [card EXCEPT !.title = task.title,
                                                          !.actions = @ \o task.acts]
                                        ELSE card]]]]
                 /\ tasks' = Replace(t, task, [task EXCEPT !.pc = "getListsByBoard"])
                 /\ UNCHANGED << lastUpdate, error, localStorage, nextId, rejected >>
            ELSE /\ setErrorCatch(t, task)
                 /\ UNCHANGED dbVars
  /\ UNCHANGED << storeUp, settings, isLoading, role, isAuthenticated, uploads,
                  discordAuthVars, localActionVars, authStorage, dispatched,
                  now, created, dragEvent, external, intents >>

\* --------------------------------------------------- hook: updateLists
\* the call: POST /api/boards/default/lists issued with newLists
CallUpdateLists(t, newLists) ==
  Start(t, [NewTask(t, "updateLists", "saveKanbanData") EXCEPT !.buf = newLists])

\* room for a mutation invoked while others are in flight
OverlapRoom(t) == Cardinality({k \in tasks[t] : k.op # "logAction"}) < MaxOverlap

\* updateLists(newLists) called on the hook, possibly while an earlier
\* operation still waits for the store
updateLists(t, newLists) ==
  /\ CanHandle
  /\ OverlapRoom(t)
  /\ tasks' = CallUpdateLists(t, newLists)
  /\ intents' = intents + 1
  /\ UNCHANGED << dbVars, storeUp, settings, uploads, lists, lastUpdate, isLoading, error,
                  localStorage, role, isAuthenticated, discordAuthVars, localActionVars, authStorage, dispatched, now,
                  nextId, created, lastReq, rejected, dragEvent, external >>

\* a listener that lets every event through
handleBoardUpdateAlways(event, curLists, curLastUpdate, closureLastUpdate) ==
  [lists |-> event.lists, lastUpdate |-> event.timestamp]

\* handleBoardUpdate, the 'board-updated' listener of the window the event
\* is dispatched on: applied only when the event's timestamp is newer than
\* the lastUpdate its closure holds
handleBoardUpdate(event, curLists, curLastUpdate, closureLastUpdate) ==
  IF event.timestamp > closureLastUpdate
  THEN [lists |-> event.lists, lastUpdate |-> event.timestamp]
  ELSE [lists |-> curLists, lastUpdate |-> curLastUpdate]

\* await apiClient.saveKanbanData(DEFAULT_BOARD_ID, newLists): on success
\* setLists, setLastUpdate and window.dispatchEvent('board-updated'), whose
\* listener runs synchronously in the same window; on failure the snapshot
\* goes to localStorage and setLists, setLastUpdate
updateLists_saveKanbanData(t, task) ==
  /\ task \in tasks[t] /\ task.op = "updateLists" /\ task.pc = "saveKanbanData"
  /\ LET r == IF storeUp THEN SaveKanbanData(dbLists, dbCards, dbActions, task.buf)
              ELSE Failed
         event == [present |-> TRUE, lists |-> task.buf, timestamp |-> now]
         heard == handleBoardUpdate(event, task.buf, now, lastUpdate[t])
     IN  /\ lastReq' = [lastReq EXCEPT ![t] = IF r.ok THEN "ok" ELSE "fail"]
         /\ IF r.ok
            THEN /\ dbLists' = r.lists /\ dbCards' = r.cards /\ dbActions' = r.actions
                 /\ dispatched' = [dispatched EXCEPT ![t] = event]
                 /\ lists' = [lists EXCEPT ![t] = heard.lists]
                 /\ lastUpdate' = [lastUpdate EXCEPT ![t] = heard.lastUpdate]
                 /\ UNCHANGED localStorage
            ELSE /\ localStorage' = [present |-> TRUE, parses |-> TRUE, value |-> task.buf]
                 /\ lists' = [lists EXCEPT ![t] = task.buf]
                 /\ lastUpdate' = [lastUpdate EXCEPT ![t] = now]
                 /\ UNCHANGED << dbVars, dispatched >>
  /\ tasks' = Finish(t, task)
  /\ UNCHANGED << storeUp, settings, isLoading, error, role, isAuthenticated, uploads,
                  discordAuthVars, localActionVars, authStorage, now,
                  nextId, created, rejected, dragEvent, external, intents >>

\* ------------------------------------------------ hook: periodic sync
\* the 5 s interval fires: the callback, which captured the current
\* snapshot, issues GET /api/boards/default/lists
syncTick(t) ==
  /\ InFlightRoom(t)
  /\ ~isLoading[t]
  /\ tasks' = Start(t, NewTask(t, "sync", "getListsByBoard"))
  /\ UNCHANGED << dbVars, storeUp, settings, lists, lastUpdate, isLoading, error, localStorage,
                  role, isAuthenticated, uploads,
                  discordAuthVars, localActionVars, authStorage, dispatched, now, nextId, created,
                  lastReq, rejected, dragEvent, external, intents >>

\* await apiClient.getListsByBoard(DEFAULT_BOARD_ID) of the interval
\* callback; a failure is swallowed by the empty catch block
sync_getListsByBoard(t, task) ==
  /\ task \in tasks[t] /\ task.op = "sync" /\ task.pc = "getListsByBoard"
  /\ lastReq' = [lastReq EXCEPT ![t] = IF storeUp THEN "ok" ELSE "fail"]
  /\ IF storeUp
     THEN \E latestLists \in GetListsByBoard(dbLists, dbCards) :
            tasks' = Replace(t, task, [task EXCEPT !.pc = "loadCardActions",
                                                   !.buf = latestLists])
     ELSE tasks' = Finish(t, task)
  /\ UNCHANGED << dbVars, storeUp, settings, lists, lastUpdate, isLoading, error, localStorage,
                  role, isAuthenticated, uploads,
                  discordAuthVars, localActionVars, authStorage, dispatched, now, nextId, created,
                  rejected, dragEvent, external, intents >>

\* a comparison that looks only at the number of columns
SyncChangedLength(latest, captured) == Len(latest) # Len(captured)

\* JSON.stringify(latestListsWithActions) !== JSON.stringify(lists)
SyncChanged(latest, captured) == latest # captured

\* await loadCardActions(latestLists), then the comparison of the two JSON
\* texts: the snapshot is replaced when the pulled board differs from the
\* snapshot the callback captured
sync_loadCardActions(t, task) ==
  /\ task \in tasks[t] /\ task.op = "sync" /\ task.pc = "loadCardActions"
  /\ lastReq' = [lastReq EXCEPT ![t] =
                   IF FlatCards(task.buf) = << >> THEN @
                   ELSE IF storeUp THEN "ok" ELSE "fail"]
  /\ LET latestListsWithActions == loadCardActions(task.buf, dbActions, storeUp)
     IN  IF SyncChanged(latestListsWithActions, task.lists)
         THEN /\ lists' = [lists EXCEPT ![t] = latestListsWithActions]
              /\ lastUpdate' = [lastUpdate EXCEPT ![t] = now]
         ELSE UNCHANGED << lists, lastUpdate >>
  /\ tasks' = Finish(t, task)
  /\ UNCHANGED << dbVars, storeUp, settings, isLoading, error, localStorage, role,
                  isAuthenticated, uploads,
                  discordAuthVars, localActionVars, authStorage, dispatched, now, nextId, created,
                  rejected, dragEvent, external, intents >>

\* ------------------------------------------------------- environment
\* Date.now() moves on
AdvanceClock ==
  /\ now < MaxClock
  /\ now' = now + 1
  /\ UNCHANGED << dbVars, storeUp, settings, lists, lastUpdate, isLoading, error, tasks,
                  localStorage, role, isAuthenticated, uploads,
                  discordAuthVars, localActionVars, authStorage, dispatched, nextId,
                  created, lastReq, rejected, dragEvent, external, intents >>

\* the durable store becomes unreachable / reachable again
StoreDown ==
  /\ storeUp
  /\ storeUp' = FALSE
  /\ UNCHANGED << settings, dbVars, lists, lastUpdate, isLoading, error, tasks, localStorage,
                  role, isAuthenticated, uploads,
                  discordAuthVars, localActionVars, authStorage, dispatched, now, nextId, created,
                  lastReq, rejected, dragEvent, external, intents >>

StoreUp ==
  /\ ~storeUp
  /\ storeUp' = TRUE
  /\ UNCHANGED << settings, dbVars, lists, lastUpdate, isLoading, error, tasks, localStorage,
                  role, isAuthenticated, uploads,
                  discordAuthVars, localActionVars, authStorage, dispatched, now, nextId, created,
                  lastReq, rejected, dragEvent, external, intents >>

\* another viewer's session changes the store through the same routes:
\* PUT /api/cards/:cardId (a move or a rename) or DELETE /api/cards/:cardId
ExternalWrite(c) ==
  /\ storeUp
  /\ external < MaxExternal
  /\ external' = external + 1
  /\ c \in {x.id : x \in dbCards}
  /\ \E r \in {UpdateCardRow(dbLists, dbCards, dbActions, c,
                               [list_id |-> l, position |-> p])
                   : l \in {x.id : x \in dbLists}, p \in 0..1}
              \cup {UpdateCardRow(dbLists, dbCards, dbActions, c, [title |-> "T2"]),
                    DeleteCardRow(dbLists, dbCards, dbActions, c)} :
       /\ r.ok
       /\ dbLists' = r.lists /\ dbCards' = r.cards /\ dbActions' = r.actions
       /\ << dbCards', dbActions' >> # << dbCards, dbActions >>
  /\ UNCHANGED << storeUp, settings, lists, lastUpdate, isLoading, error, tasks, localStorage,
                  role, isAuthenticated, uploads,
                  discordAuthVars, localActionVars, authStorage, dispatched, now, nextId, created,
                  lastReq, rejected, dragEvent, intents >>

\* a 'board-updated' CustomEvent reaches window t outside updateLists (an
\* event produced earlier and delivered late, or dispatched by another script
\* of the page): the listener registered by the last render compares it with
\* the lastUpdate of that render
boardUpdated(t, updatedLists, timestamp) ==
  /\ external < MaxExternal
  /\ external' = external + 1
  /\ timestamp <= now
  /\ LET event == [present |-> TRUE, lists |-> updatedLists, timestamp |-> timestamp]
         heard == handleBoardUpdate(event, lists[t], lastUpdate[t], lastUpdate[t])
     IN  /\ dispatched' = [dispatched EXCEPT ![t] = event]
         /\ lists' = [lists EXCEPT ![t] = heard.lists]
         /\ lastUpdate' = [lastUpdate EXCEPT ![t] = heard.lastUpdate]
  /\ UNCHANGED << dbVars, storeUp, settings, uploads, isLoading, error, tasks, localStorage,
                  role, isAuthenticated, discordAuthVars, localActionVars, authStorage, now, nextId, created, lastReq,
                  rejected, dragEvent, intents >>

\* another viewer's session moves card c to the top of column listId:
\* PUT /api/cards/:cardId
ExternalMove(c, listId) ==
  /\ storeUp
  /\ external < MaxExternal
  /\ external' = external + 1
  /\ LET r == UpdateCardRow(dbLists, dbCards, dbActions, c,
                            [list_id |-> listId, position |-> 0])
     IN  /\ r.ok
         /\ dbLists' = r.lists /\ dbCards' = r.cards /\ dbActions' = r.actions
         /\ dbCards' # dbCards
  /\ UNCHANGED << storeUp, settings, lists, lastUpdate, isLoading, error, tasks, localStorage,
                  role, isAuthenticated, uploads,
                  discordAuthVars, localActionVars, authStorage, dispatched, now, nextId, created,
                  lastReq, rejected, dragEvent, intents >>

\* another viewer's session logs a 'moved' record for card c:
\* POST /api/card-actions
ExternalAction(c) ==
  /\ storeUp
  /\ external < MaxExternal
  /\ nextId < MaxActions
  /\ external' = external + 1
  /\ nextId' = nextId + 1
  /\ LET r == CreateCardAction(dbLists, dbCards, dbActions,
                               [id |-> nextId + 1, cardId |-> c, userId |-> "u2",
                                username |-> "bob",
                                action |-> "moved",
                                details |-> [from |-> "To Do", to |-> "Admin"],
                                shape |-> "local"])
     IN  r.ok /\ dbActions' = r.actions
  /\ UNCHANGED << dbLists, dbCards, storeUp, settings, lists, lastUpdate, isLoading, error,
                  tasks, localStorage, role, isAuthenticated, uploads,
                  discordAuthVars, localActionVars, authStorage, dispatched,
                  now, created, lastReq, rejected, dragEvent, intents >>

\* the column listId of a board with its visibility set to newType
WithVisibility(ls, listId, newType) ==
  [i \in 1..Len(ls) |-> IF ls[i].id = listId THEN [ls[i] EXCEPT !.type = newType]
                        ELSE ls[i]]

\* another admin's session changes the visibility of a column: its
\* handleListVisibilityChange saves the board it holds
ExternalVisibilityChange(listId, newType) ==
  /\ storeUp
  /\ external < MaxExternal
  /\ external' = external + 1
  /\ \E theirs \in GetListsByBoard(dbLists, dbCards) :
       LET r == SaveKanbanData(dbLists, dbCards, dbActions,
                               WithVisibility(theirs, listId, newType))
       IN  /\ r.ok
           /\ dbLists' = r.lists /\ dbCards' = r.cards /\ dbActions' = r.actions
           /\ dbLists' # dbLists
  /\ UNCHANGED << storeUp, settings, lists, lastUpdate, isLoading, error, tasks, localStorage,
                  role, isAuthenticated, uploads,
                  discordAuthVars, localActionVars, authStorage, dispatched, now, nextId, created,
                  lastReq, rejected, dragEvent, intents >>

\* another client calls DELETE /api/lists/:listId
ExternalDeleteList(listId) ==
  /\ storeUp
  /\ external < MaxExternal
  /\ external' = external + 1
  /\ LET r == DeleteList(dbLists, dbCards, dbActions, listId)
     IN  /\ r.ok
         /\ dbLists' = r.lists /\ dbCards' = r.cards /\ dbActions' = r.actions
  /\ UNCHANGED << storeUp, settings, lists, lastUpdate, isLoading, error, tasks, localStorage,
                  role, isAuthenticated, uploads,
                  discordAuthVars, localActionVars, authStorage, dispatched, now, nextId, created,
                  lastReq, rejected, dragEvent, intents >>

\* ---------------------------------------------------- KanbanBoard
\* the sortable id of a column ('list-' + id) and String.replace('list-', '')
ListPrefixed == [l \in ListIds |-> CASE l = "L1" -> "list-L1"
                                     [] l = "L2" -> "list-L2"
                                     [] l = "L3" -> "list-L3"]

StartsWithList(id) == \E l \in ListIds : ListPrefixed[l] = id

ReplaceListPrefix(id) ==
  IF StartsWithList(id) THEN CHOOSE l \in ListIds : ListPrefixed[l] = id ELSE id

\* search texts the viewer can type; "" is no search
Queries == {"", "T1", "T2"}

\* a role filter that does not look at isPublicView
visibleListsByRole(ls, userRole, isPublicView) ==
  Filter(ls, LAMBDA list :
    CASE userRole = "admin" -> TRUE
      [] userRole = "mod" -> TRUE
      [] OTHER -> list.type = "open")

\* visibleLists: the columns the role filter lets through
visibleLists(ls, userRole, isPublicView) ==
  Filter(ls, LAMBDA list :
    IF isPublicView THEN list.type = "open"
    ELSE CASE userRole = "admin" -> TRUE
           [] userRole = "mod" -> TRUE
           [] OTHER -> list.type = "open")

\* filteredLists: the visible columns with the cards the search text keeps
\* (title.toLowerCase().includes(query); the titles here contain no other)
filteredLists(ls, userRole, isPublicView, searchQuery) ==
  LET vis == visibleLists(ls, userRole, isPublicView)
  IN  [i \in 1..Len(vis) |->
         [vis[i] EXCEPT !.cards =
            IF searchQuery = "" THEN @
            ELSE Filter(@, LAMBDA card : card.title = searchQuery)]]

\* Index: isPublicView={!isAuthenticated || (user?.role === 'default')}
IsPublicView == ~isAuthenticated \/ role = "default"

\* what the board renders for tab t, and the ids a drag can start from or
\* end over: the rendered cards, the rendered columns (by id and by
\* 'list-' id), or nothing
Rendered(t) == filteredLists(lists[t], role, IsPublicView, "")

RenderedCardIds(t) == {c.id : c \in Range(FlatCards(Rendered(t)))}

RenderedListIds(t) == {l.id : l \in Range(Rendered(t))}

OverIds(t) ==
  RenderedCardIds(t) \cup RenderedListIds(t)
    \cup {ListPrefixed[l] : l \in RenderedListIds(t)} \cup {NULL}

\* lists.find(list => list.id === overId || list.id ===
\* overId.replace('list-', '') || list.cards.some(card => card.id === overId))
FindOverList(ls, overId) ==
  FindIndex(ls, LAMBDA list : \/ list.id = overId
                              \/ list.id = ReplaceListPrefix(overId)
                              \/ HasCard(list, overId)) + 1

\* the lists.map of handleDragOver: the card leaves its column and enters the
\* target column before the card it is over, or at the end
MoveAcrossKeep(ls, a, o, activeId, overId) ==
  LET activeCard == FlatCards(ls)[FindIndex(FlatCards(ls),
                                            LAMBDA c : c.id = activeId) + 1]
  IN  [i \in 1..Len(ls) |->
         IF ls[i].id = ls[o].id
         THEN [ls[i] EXCEPT !.cards = Append(@, activeCard)]
         ELSE ls[i]]

MoveAcross(ls, a, o, activeId, overId) ==
  LET activeCard == FlatCards(ls)[FindIndex(FlatCards(ls),
                                            LAMBDA c : c.id = activeId) + 1]
  IN  [i \in 1..Len(ls) |->
         IF ls[i].id = ls[a].id
         THEN [ls[i] EXCEPT !.cards = Filter(@, LAMBDA card : card.id # activeId)]
         ELSE IF ls[i].id = ls[o].id
         THEN LET overIndex == FindIndex(ls[i].cards, LAMBDA card : card.id = overId)
              IN  [ls[i] EXCEPT !.cards =
                     IF overIndex >= 0 THEN Splice(@, overIndex, activeCard)
                     ELSE Append(@, activeCard)]
         ELSE ls[i]]

\* a drag-over that lets a moderator through
DragOverModAllowed(userRole, overList) == FALSE

\* handleDragOver: if (userRole === 'mod' && overList.type === 'open') return
DragOverModDenied(userRole, overList) == userRole = "mod" /\ overList.type = "open"

\* a drag-end that lets a moderator through
DragEndModAllowed(userRole, overList) == FALSE

\* handleDragEnd: if (userRole === 'mod' && overList.type === 'open') return
DragEndModDenied(userRole, overList) == userRole = "mod" /\ overList.type = "open"

\* the drag event a handler was called with
Event(handler, t, activeId, overId) ==
  [handler |-> handler, tab |-> t, active |-> activeId, over |-> overId]

\* handleDragOver; onListsUpdate is Index.handleLocalUpdate, which calls
\* updateLists(newLists)
handleDragOver(t, activeId, overId) ==
  /\ CanHandle
  /\ dragEvent' = Event("dragOver", t, activeId, overId)
  /\ LET ls == lists[t]
         a == FindListOfCard(ls, activeId)
         o == FindOverList(ls, overId)
     IN  IF /\ overId # NULL
            /\ activeId # overId
            /\ role \in {"admin", "mod"}
            /\ a # 0 /\ o # 0
            /\ ~DragOverModDenied(role, ls[o])
            /\ ls[a].id # ls[o].id
         THEN /\ InFlightRoom(t)
              /\ tasks' = CallUpdateLists(t, MoveAcross(ls, a, o, activeId, overId))
         ELSE UNCHANGED tasks
  /\ intents' = intents + 1
  /\ UNCHANGED << dbVars, storeUp, settings, lists, lastUpdate, isLoading, error, localStorage,
                  role, isAuthenticated, uploads,
                  discordAuthVars, localActionVars, authStorage, dispatched, now, nextId, created,
                  lastReq, rejected, external >>

\* arrayMove of @dnd-kit/sortable with 0-based indices
arrayMove(array, from, to) ==
  LET item == array[from + 1]
      rest == SubSeq(array, 1, from) \o SubSeq(array, from + 2, Len(array))
  IN  Splice(rest, to, item)

\* what handleDragEnd decides: nothing, a column reorder through
\* onListsUpdate, or a card move through onCardPositionUpdate (which Index
\* wires to updateCardPosition, so the local fallbacks are not taken)
DragEndDecision(ls, userRole, activeId, overId) ==
  LET nothing == [kind |-> "none", lists |-> << >>, listId |-> NULL, position |-> 0]
      a == FindListOfCard(ls, activeId)
      o == FindOverList(ls, overId)
  IN  IF overId = NULL THEN nothing
      ELSE IF StartsWithList(activeId) /\ StartsWithList(overId)
      THEN LET activeIndex == FindIndex(ls, LAMBDA l : l.id = ReplaceListPrefix(activeId))
               overIndex == FindIndex(ls, LAMBDA l : l.id = ReplaceListPrefix(overId))
           IN  IF /\ userRole \in {"admin", "mod"}
                  /\ ReplaceListPrefix(activeId) # ReplaceListPrefix(overId)
                  /\ activeIndex # overIndex
               THEN [nothing EXCEPT !.kind = "lists",
                                    !.lists = arrayMove(ls, activeIndex, overIndex)]
               ELSE nothing
      ELSE IF userRole \notin {"admin", "mod"} THEN nothing
      ELSE IF a = 0 \/ o = 0 THEN nothing
      ELSE IF DragEndModDenied(userRole, ls[o]) THEN nothing
      ELSE IF ls[a].id = ls[o].id
      THEN LET activeIndex == FindIndex(ls[a].cards, LAMBDA card : card.id = activeId)
               overIndex == FindIndex(ls[a].cards, LAMBDA card : card.id = overId)
           IN  IF activeIndex # overIndex
               THEN [nothing EXCEPT !.kind = "card", !.listId = ls[o].id,
                                    !.position = overIndex]
               ELSE nothing
      ELSE LET overIndex == FindIndex(ls[o].cards, LAMBDA card : card.id = overId)
           IN  [nothing EXCEPT !.kind = "card", !.listId = ls[o].id,
                               !.position = IF overIndex >= 0 THEN overIndex
                                            ELSE Len(ls[o].cards)]

\* handleDragEnd
handleDragEnd(t, activeId, overId) ==
  /\ CanHandle
  /\ dragEvent' = Event("dragEnd", t, activeId, overId)
  /\ LET d == DragEndDecision(lists[t], role, activeId, overId)
     IN  CASE d.kind = "none" -> UNCHANGED tasks
           [] d.kind = "lists" -> InFlightRoom(t) /\ tasks' = CallUpdateLists(t, d.lists)
           [] d.kind = "card" ->
                /\ InFlightRoom(t)
                /\ nextId < MaxActions
                /\ tasks' = CallUpdateCardPosition(t, activeId, d.listId, d.position)
  /\ intents' = intents + 1
  /\ UNCHANGED << dbVars, storeUp, settings, lists, lastUpdate, isLoading, error, localStorage,
                  role, isAuthenticated, uploads,
                  discordAuthVars, localActionVars, authStorage, dispatched, now, nextId, created,
                  lastReq, rejected, external >>

\* ----------------------------------- hook: initializeData (session start)
\* ClientMigrationService.hasLocalStorageData at the start of a page (the
\* static migrationAttempted is false): the board item is in localStorage
hasLocalStorageData == localStorage.present

\* MigrationService.getMigrationStatus().completed: the migration flag that
\* migrateToDatabase sets with setSetting('migrated_from_localstorage')
getMigrationStatus == "migrated_from_localstorage" \in settings

\* ClientMigrationService.cleanupLocalStorage: removes 'trello_board_state'
cleanupLocalStorage == NoStored

\* the page of tab t is loaded: the hook starts from useState([]),
\* isLoading true, and initializeData runs up to its first await, which is
\* GET /api/migration/status when localStorage holds data and
\* GET /api/boards/default/lists otherwise
pageLoad(t) ==
  /\ CanHandle
  /\ lists' = [lists EXCEPT ![t] = << >>]
  /\ lastUpdate' = [lastUpdate EXCEPT ![t] = now]
  /\ isLoading' = [isLoading EXCEPT ![t] = TRUE]
  /\ error' = [error EXCEPT ![t] = NULL]
  /\ lastReq' = [lastReq EXCEPT ![t] = "none"]
  /\ tasks' = [tasks EXCEPT ![t] =
                 {[NewTask(t, "initializeData",
                           IF hasLocalStorageData THEN "getMigrationStatus"
                           ELSE "getListsByBoard") EXCEPT !.lists = << >>]}]
  /\ intents' = intents + 1
  /\ UNCHANGED << dbVars, storeUp, settings, localStorage, role, isAuthenticated,
                  uploads, discordAuthVars, localActionVars, authStorage, dispatched, now, nextId, created, rejected, dragEvent,
                  external >>

\* migrateToDatabase, await apiClient.getMigrationStatus(): when the request
\* fails or the migration is completed it returns true, and initializeData
\* calls cleanupLocalStorage; otherwise the stored board is collected and
\* POST /api/boards/default/lists is issued with it
initializeData_getMigrationStatus(t, task) ==
  /\ task \in tasks[t] /\ task.op = "initializeData" /\ task.pc = "getMigrationStatus"
  /\ lastReq' = [lastReq EXCEPT ![t] = IF storeUp THEN "ok" ELSE "fail"]
  /\ IF storeUp /\ ~getMigrationStatus /\ localStorage.present /\ localStorage.parses
     THEN /\ tasks' = Replace(t, task, [task EXCEPT !.pc = "migrate_saveKanbanData",
                                                    !.buf = localStorage.value])
          /\ UNCHANGED localStorage
     ELSE /\ tasks' = Replace(t, task, [task EXCEPT !.pc = "getListsByBoard"])
          /\ localStorage' = cleanupLocalStorage
  /\ UNCHANGED << dbVars, storeUp, settings, lists, lastUpdate, isLoading, error,
                  role, isAuthenticated, uploads,
                  discordAuthVars, localActionVars, authStorage, dispatched, now, nextId, created,
                  rejected, dragEvent, external, intents >>

\* migrateToDatabase, await apiClient.saveKanbanData('default', boardData):
\* a failure is caught and migrateToDatabase returns true
initializeData_migrate_saveKanbanData(t, task) ==
  /\ task \in tasks[t] /\ task.op = "initializeData" /\ task.pc = "migrate_saveKanbanData"
  /\ LET r == IF storeUp THEN SaveKanbanData(dbLists, dbCards, dbActions, task.buf)
              ELSE Failed
     IN  /\ lastReq' = [lastReq EXCEPT ![t] = IF r.ok THEN "ok" ELSE "fail"]
         /\ IF r.ok
            THEN /\ dbLists' = r.lists /\ dbCards' = r.cards /\ dbActions' = r.actions
                 /\ tasks' = Replace(t, task, [task EXCEPT !.pc = "migrate_setSetting"])
                 /\ UNCHANGED localStorage
            ELSE /\ UNCHANGED dbVars
                 /\ tasks' = Replace(t, task, [task EXCEPT !.pc = "getListsByBoard"])
                 /\ localStorage' = cleanupLocalStorage
  /\ UNCHANGED << storeUp, settings, lists, lastUpdate, isLoading, error, role,
                  isAuthenticated, uploads,
                  discordAuthVars, localActionVars, authStorage, dispatched, now, nextId, created,
                  rejected, dragEvent, external, intents >>

\* migrateToDatabase, await setSetting('migrated_from_localstorage', 'true')
\* (and 'migration_date'); it returns true either way and initializeData
\* calls cleanupLocalStorage
initializeData_migrate_setSetting(t, task) ==
  /\ task \in tasks[t] /\ task.op = "initializeData" /\ task.pc = "migrate_setSetting"
  /\ lastReq' = [lastReq EXCEPT ![t] = IF storeUp THEN "ok" ELSE "fail"]
  /\ settings' = IF storeUp THEN settings \cup {"migrated_from_localstorage"}
                 ELSE settings
  /\ tasks' = Replace(t, task, [task EXCEPT !.pc = "getListsByBoard"])
  /\ localStorage' = cleanupLocalStorage
  /\ UNCHANGED << dbVars, storeUp, lists, lastUpdate, isLoading, error, role,
                  isAuthenticated, uploads,
                  discordAuthVars, localActionVars, authStorage, dispatched, now, nextId, created,
                  rejected, dragEvent, external, intents >>

\* a fallback whose failed parse never reaches the finally block
initializeDataFallbackNoFinally(t, task) ==
  IF localStorage.present /\ ~localStorage.parses
  THEN /\ tasks' = Finish(t, task)
       /\ error' = [error EXCEPT ![t] = "Unexpected token"]
       /\ UNCHANGED isLoading
  ELSE /\ tasks' = Replace(t, task,
                     [task EXCEPT !.pc = "loadCardActions",
                                  !.buf = IF localStorage.present THEN localStorage.value
                                          ELSE InitialLists])
       /\ UNCHANGED << isLoading, error >>

\* the catch (apiError) block: the board is read from localStorage, or is
\* initialLists when the item is missing; JSON.parse throwing on the item
\* goes to the outer catch (setError) and to finally (setIsLoading(false))
initializeDataFallback(t, task) ==
  IF localStorage.present /\ ~localStorage.parses
  THEN /\ tasks' = Finish(t, task)
       /\ error' = [error EXCEPT ![t] = "Unexpected token"]
       /\ isLoading' = [isLoading EXCEPT ![t] = FALSE]
  ELSE /\ tasks' = Replace(t, task,
                     [task EXCEPT !.pc = "loadCardActions",
                                  !.buf = IF localStorage.present THEN localStorage.value
                                          ELSE InitialLists])
       /\ UNCHANGED << isLoading, error >>

\* await apiClient.getListsByBoard(DEFAULT_BOARD_ID): a non-empty board goes
\* to loadCardActions, an empty one makes initializeData save initialLists;
\* when the request fails the board is read from localStorage, or is
\* initialLists when the item is missing
initializeData_getListsByBoard(t, task) ==
  /\ task \in tasks[t] /\ task.op = "initializeData" /\ task.pc = "getListsByBoard"
  /\ lastReq' = [lastReq EXCEPT ![t] = IF storeUp THEN "ok" ELSE "fail"]
  /\ IF storeUp
     THEN /\ \E boardLists \in GetListsByBoard(dbLists, dbCards) :
               tasks' = Replace(t, task,
                          IF boardLists # << >>
                          THEN [task EXCEPT !.pc = "loadCardActions", !.buf = boardLists]
                          ELSE [task EXCEPT !.pc = "saveKanbanData", !.buf = InitialLists])
          /\ UNCHANGED << isLoading, error >>
     ELSE initializeDataFallback(t, task)
  /\ UNCHANGED << dbVars, storeUp, settings, lists, lastUpdate,
                  localStorage, role, isAuthenticated, uploads,
                  discordAuthVars, localActionVars, authStorage, dispatched, now,
                  nextId, created, rejected, dragEvent, external, intents >>

\* await apiClient.saveKanbanData(DEFAULT_BOARD_ID, initialLists) for an empty
\* store; a failure goes to the same catch block as a failed load
initializeData_saveKanbanData(t, task) ==
  /\ task \in tasks[t] /\ task.op = "initializeData" /\ task.pc = "saveKanbanData"
  /\ LET r == IF storeUp THEN SaveKanbanData(dbLists, dbCards, dbActions, task.buf)
              ELSE Failed
     IN  /\ lastReq' = [lastReq EXCEPT ![t] = IF r.ok THEN "ok" ELSE "fail"]
         /\ dbLists' = IF r.ok THEN r.lists ELSE dbLists
         /\ dbCards' = IF r.ok THEN r.cards ELSE dbCards
         /\ dbActions' = IF r.ok THEN r.actions ELSE dbActions
         /\ IF r.ok
            THEN /\ tasks' = Replace(t, task, [task EXCEPT !.pc = "loadCardActions",
                                                           !.buf = InitialLists])
                 /\ UNCHANGED << isLoading, error >>
            ELSE initializeDataFallback(t, task)
  /\ UNCHANGED << storeUp, settings, lists, lastUpdate,
                  localStorage, role, isAuthenticated, uploads,
                  discordAuthVars, localActionVars, authStorage, dispatched, now,
                  nextId, created, rejected, dragEvent, external, intents >>

\* await loadCardActions(...), setLists, setLastUpdate(Date.now()) and, in the
\* finally block, setIsLoading(false)
initializeData_loadCardActions(t, task) ==
  /\ task \in tasks[t] /\ task.op = "initializeData" /\ task.pc = "loadCardActions"
  /\ lastReq' = [lastReq EXCEPT ![t] =
                   IF FlatCards(task.buf) = << >> THEN @
                   ELSE IF storeUp THEN "ok" ELSE "fail"]
  /\ lists' = [lists EXCEPT ![t] = loadCardActions(task.buf, dbActions, storeUp)]
  /\ lastUpdate' = [lastUpdate EXCEPT ![t] = now]
  /\ isLoading' = [isLoading EXCEPT ![t] = FALSE]
  /\ tasks' = Finish(t, task)
  /\ UNCHANGED << dbVars, storeUp, settings, error, localStorage, role,
                  isAuthenticated, uploads,
                  discordAuthVars, localActionVars, authStorage, dispatched, now, nextId, created,
                  rejected, dragEvent, external, intents >>

InitializeDataSteps(t) ==
  \E task \in tasks[t] :
    \/ initializeData_getMigrationStatus(t, task)
    \/ initializeData_migrate_saveKanbanData(t, task)
    \/ initializeData_migrate_setSetting(t, task)
    \/ initializeData_getListsByBoard(t, task)
    \/ initializeData_saveKanbanData(t, task)
    \/ initializeData_loadCardActions(t, task)

\* ------------------------------------------------------------- Index
\* handleCreateCard: addCard(createCardListId, { title }) for a non-empty title
handleCreateCard(t, listId, title) ==
  /\ CanStart(t)
  /\ created < MaxNewCards
  /\ nextId < MaxActions
  /\ tasks' = CallAddCard(t, listId, title)
  /\ created' = created + 1
  /\ intents' = intents + 1
  /\ UNCHANGED << dbVars, storeUp, settings, lists, lastUpdate, isLoading, error, localStorage,
                  role, isAuthenticated, uploads,
                  discordAuthVars, localActionVars, authStorage, dispatched, now, nextId, lastReq,
                  rejected, dragEvent, external >>

\* handleCardDelete, confirmed: deleteCard(cardId) for a card of the snapshot
handleCardDelete(t, cardId) ==
  /\ \E c \in Range(FlatCards(lists[t])) : c.id = cardId
  /\ nextId < MaxActions
  /\ deleteCard(t, cardId)

\* handleListVisibilityChange, reached from the column's context menu,
\* which offers it to userRole 'admin' only and disables the current type:
\* handleLocalUpdate -> updateLists(the snapshot with the new type)
handleListVisibilityChange(t, listId, newType) ==
  /\ CanHandle
  /\ CanStart(t)
  /\ role = "admin"
  /\ \E l \in Range(Rendered(t)) : l.id = listId /\ l.type # newType
  /\ tasks' = CallUpdateLists(t, WithVisibility(lists[t], listId, newType))
  /\ intents' = intents + 1
  /\ UNCHANGED << dbVars, storeUp, settings, lists, lastUpdate, isLoading, error, localStorage,
                  role, isAuthenticated, uploads,
                  discordAuthVars, localActionVars, authStorage, dispatched, now, nextId, created,
                  lastReq, rejected, dragEvent, external >>

\* the snapshot without the column: lists.filter(l => l.id !== listId)
WithoutList(ls, listId) == Filter(ls, LAMBDA l : l.id # listId)

\* handleListDelete confirmed in its dialog; the menu offers 'Elimina lista'
\* to admins and moderators on a column the view renders
handleListDelete(t, listId) ==
  /\ CanHandle
  /\ CanStart(t)
  /\ role \in {"admin", "mod"}
  /\ \E l \in Range(Rendered(t)) : l.id = listId
  /\ tasks' = CallUpdateLists(t, WithoutList(lists[t], listId))
  /\ intents' = intents + 1
  /\ UNCHANGED << dbVars, storeUp, settings, lists, lastUpdate, isLoading, error, localStorage,
                  role, isAuthenticated, uploads,
                  discordAuthVars, localActionVars, authStorage, dispatched, now, nextId, created,
                  lastReq, rejected, dragEvent, external >>

\* handleListArchive confirmed in its dialog: the same filter as the delete,
\* offered by 'Archivia lista' to admins and moderators
handleListArchive(t, listId) ==
  /\ CanHandle
  /\ CanStart(t)
  /\ role \in {"admin", "mod"}
  /\ \E l \in Range(Rendered(t)) : l.id = listId
  /\ tasks' = CallUpdateLists(t, WithoutList(lists[t], listId))
  /\ intents' = intents + 1
  /\ UNCHANGED << dbVars, storeUp, settings, lists, lastUpdate, isLoading, error, localStorage,
                  role, isAuthenticated, uploads,
                  discordAuthVars, localActionVars, authStorage, dispatched, now, nextId, created,
                  lastReq, rejected, dragEvent, external >>

\* the snapshot with the column renamed: { ...l, title: newTitle }
WithListTitle(ls, listId, newTitle) ==
  [i \in 1..Len(ls) |->
     IF ls[i].id = listId THEN [ls[i] EXCEPT !.title = newTitle] ELSE ls[i]]

\* handleListEdit confirmed in its prompt; 'Modifica lista' is enabled for
\* admins and moderators
handleListEdit(t, listId, newTitle) ==
  /\ CanHandle
  /\ CanStart(t)
  /\ role \in {"admin", "mod"}
  /\ \E l \in Range(Rendered(t)) : l.id = listId
  /\ tasks' = CallUpdateLists(t, WithListTitle(lists[t], listId, newTitle))
  /\ intents' = intents + 1
  /\ UNCHANGED << dbVars, storeUp, settings, lists, lastUpdate, isLoading, error, localStorage,
                  role, isAuthenticated, uploads,
                  discordAuthVars, localActionVars, authStorage, dispatched, now, nextId, created,
                  lastReq, rejected, dragEvent, external >>

\* the board with the card replaced by the edited card
WithTitle(ls, cardId, title) ==
  [i \in 1..Len(ls) |->
     [ls[i] EXCEPT !.cards =
        [j \in 1..Len(ls[i].cards) |->
           IF ls[i].cards[j].id = cardId
           THEN [ls[i].cards[j] EXCEPT !.title = title]
           ELSE ls[i].cards[j]]]]

\* onCardUpdate of the card detail modal: when the title changed,
\* logCardEdited and apiClient.createCardAction(action), not awaited; then
\* updateLists(updatedLists)
onCardUpdate(t, cardId, title) ==
  /\ CanStart(t)
  /\ nextId < MaxActions
  /\ LET cs == FlatCards(lists[t])
         k == FindIndex(cs, LAMBDA c : c.id = cardId) + 1
         action == logCardEdited(cardId, "title", cs[k].title, title)
         sent == IF title # cs[k].title /\ action # NullAction
                 THEN {[NewTask(t, "logAction", "createCardAction")
                          EXCEPT !.acts = <<action>>]}
                 ELSE {}
     IN  /\ k # 0
         /\ nextId' = IF title # cs[k].title THEN IdsAfter(action) ELSE nextId
         /\ tasks' = [tasks EXCEPT ![t] =
                        @ \cup sent
                          \cup {[NewTask(t, "updateLists", "saveKanbanData") EXCEPT
                                   !.buf = WithTitle(lists[t], cardId, title)]}]
  /\ intents' = intents + 1
  /\ UNCHANGED << dbVars, storeUp, settings, lists, lastUpdate, isLoading, error, localStorage,
                  role, isAuthenticated, uploads,
                  discordAuthVars, localActionVars, authStorage, dispatched, now, created, lastReq,
                  rejected, dragEvent, external >>

\* the server handles the POST /api/card-actions that onCardUpdate sent; a
\* failure goes to console.error
onCardUpdate_createCardAction(t, task) ==
  /\ task \in tasks[t] /\ task.op = "logAction" /\ task.pc = "createCardAction"
  /\ LET r == IF storeUp THEN CreateCardAction(dbLists, dbCards, dbActions, task.acts[1])
              ELSE Failed
     IN  dbActions' = IF r.ok THEN r.actions ELSE dbActions
  /\ tasks' = Finish(t, task)
  /\ UNCHANGED << dbLists, dbCards, storeUp, settings, lists, lastUpdate, isLoading, error,
                  localStorage, role, isAuthenticated, uploads,
                  discordAuthVars, localActionVars, authStorage, dispatched, now,
                  nextId, created, lastReq, rejected, dragEvent, external, intents >>

\* ------------------------------------- CardDetailModal / SimpleUpload
\* lists.map(list => ({...list, cards: list.cards.map(card =>
\* card.id === updatedCard.id ? updatedCard : card)}))
WithCard(ls, updatedCard) ==
  [i \in 1..Len(ls) |->
     [ls[i] EXCEPT !.cards =
        [j \in 1..Len(ls[i].cards) |->
           IF ls[i].cards[j].id = updatedCard.id THEN updatedCard
           ELSE ls[i].cards[j]]]]

\* processFiles of the SimpleUpload that wraps the card detail modal: a
\* viewer of any role who clicked a rendered card (handleCardClick and the
\* modal pass no `disabled`) drops or pastes an image
processFiles(t, cardId) ==
  /\ CanStart(t)
  /\ cardId \in RenderedCardIds(t)
  /\ tasks' = Start(t, [NewTask(t, "processFiles", "uploadFile") EXCEPT
                          !.cardId = cardId])
  /\ intents' = intents + 1
  /\ UNCHANGED << dbVars, storeUp, settings, uploads, lists, lastUpdate, isLoading, error,
                  localStorage, role, isAuthenticated, discordAuthVars, localActionVars, authStorage, dispatched, now,
                  nextId, created, lastReq, rejected, dragEvent, external >>

\* await uploadFile(file): POST /api/cards/:cardId/attachments, where multer
\* writes the file before the route looks the card up; on success
\* onImageUploaded -> handleImageUploaded -> onCardUpdate({...currentCard}),
\* which calls updateLists with the card of the modal put into the current
\* snapshot; on failure a toast
processFiles_uploadFile(t, task) ==
  /\ task \in tasks[t] /\ task.op = "processFiles" /\ task.pc = "uploadFile"
  /\ LET ok == storeUp /\ \E c \in dbCards : c.id = task.cardId
         currentCard == FlatCards(task.lists)[FindIndex(FlatCards(task.lists),
                                                LAMBDA c : c.id = task.cardId) + 1]
     IN  /\ uploads' = IF storeUp THEN uploads + 1 ELSE uploads
         /\ lastReq' = [lastReq EXCEPT ![t] = IF ok THEN "ok" ELSE "fail"]
         /\ tasks' = IF ok
                     THEN Replace(t, task,
                            [NewTask(t, "updateLists", "saveKanbanData") EXCEPT
                               !.buf = WithCard(lists[t], currentCard)])
                     ELSE Finish(t, task)
  /\ UNCHANGED << dbVars, storeUp, settings, lists, lastUpdate, isLoading, error,
                  localStorage, role, isAuthenticated, discordAuthVars, localActionVars, authStorage, dispatched, now,
                  nextId, created, rejected, dragEvent, external, intents >>

\* ------------------------------------------------------ specifications
\* ids of the columns and cards of tab t's snapshot that the board renders
CardTargets(t) == RenderedCardIds(t)

ListTargets(t) == RenderedListIds(t)

PrefixedTargets(t) == {ListPrefixed[l] : l \in RenderedListIds(t)}

\* the awaits of the operations in flight
UpdateCardPositionSteps(t) ==
  \E task \in tasks[t] :
    \/ updateCardPosition_updateCard(t, task)
    \/ updateCardPosition_createCardAction(t, task)

AddCardSteps(t) ==
  \E task \in tasks[t] :
    \/ addCard_createCard(t, task)
    \/ addCard_createCardAction(t, task)

ReloadSteps(t) ==
  \E task \in tasks[t] :
    \/ reload_getListsByBoard(t, task)
    \/ reload_loadCardActions(t, task)

SyncSteps(t) ==
  \E task \in tasks[t] :
    \/ sync_getListsByBoard(t, task)
    \/ sync_loadCardActions(t, task)

\* an authenticated admin on one tab moves, creates and deletes cards while
\* the store is reachable
InitOrder == Init /\ role = "admin" /\ isAuthenticated /\ authStorage = SignedIn

NextOrder ==
  \/ \E activeId \in CardTargets("A"), overId \in CardTargets("A") \cup ListTargets("A") :
       handleDragEnd("A", activeId, overId)
  \/ \E listId \in ListTargets("A") : handleCreateCard("A", listId, "T1")
  \/ \E cardId \in CardTargets("A") : handleCardDelete("A", cardId)
  \/ UpdateCardPositionSteps("A")
  \/ AddCardSteps("A")
  \/ ReloadSteps("A")
  \/ \E task \in tasks["A"] : deleteCard_deleteCard("A", task)

SpecOrder == InitOrder /\ [][NextOrder]_vars

\* C1 (P1): in every column of the durable store the position values of its
\* N cards are exactly {0, ..., N-1}, with no duplicate and no gap
P1OrderingInvariant ==
  \A l \in dbLists :
    LET rows == {c \in dbCards : c.list_id = l.id}
    IN  /\ {c.position : c \in rows} = 0..(Cardinality(rows) - 1)
        /\ \A c1, c2 \in rows : c1.position = c2.position => c1 = c2

\* a moderator drags cards and columns on one tab while the store is
\* reachable
InitDrag == Init /\ role = "mod" /\ isAuthenticated /\ authStorage = SignedIn

\* the dragged things: one card of the open column, the card of the
\* restricted column, and the first column itself
DraggedCards == {"c1", "c3"}
DraggedLists == {ListPrefixed["L1"]}

NextDrag ==
  \/ \E activeId \in DraggedCards, overId \in OverIds("A") :
       handleDragOver("A", activeId, overId)
  \/ \E activeId \in DraggedCards \cup DraggedLists, overId \in OverIds("A") :
       handleDragEnd("A", activeId, overId)
  \/ \E task \in tasks["A"] : updateLists_saveKanbanData("A", task)
  \/ UpdateCardPositionSteps("A")
  \/ ReloadSteps("A")

SpecDrag == InitDrag /\ [][NextDrag]_vars

\* the columns of tab t's snapshot a drop target names: the column itself
\* (by id or by 'list-' id) or the column holding the target card
TargetColumns(t, overId) ==
  {l \in Range(lists[t]) :
     l.id = overId \/ ListPrefixed[l.id] = overId \/ HasCard(l, overId)}

SourceColumns(t, activeId) == {l \in Range(lists[t]) : HasCard(l, activeId)}

\* the step is a drag handler of tab "A" called with a card over something
\* in an open column
DragStepOntoOpen ==
  /\ intents' # intents
  /\ dragEvent'.handler \in {"dragOver", "dragEnd"}
  /\ SourceColumns("A", dragEvent'.active) # {}
  /\ \E l \in TargetColumns("A", dragEvent'.over) : l.type = "open"

\* C2 (P2, moderator gate): for a moderator, handleDragOver and handleDragEnd
\* called with a card over an open column, or over a card inside one, start
\* no operation (no snapshot update, no position update), whatever column
\* the card comes from
ModeratorGate ==
  [][(role = "mod" /\ DragStepOntoOpen) => tasks' = tasks]_vars

\* a moderator's drag-end of a card of a restricted column over a card
\* inside an open column has been handled
ModeratorGateWitness ==
  /\ role = "mod"
  /\ dragEvent.handler = "dragEnd"
  /\ \E l \in SourceColumns("A", dragEvent.active) : l.type = "closed"
  /\ \E l \in TargetColumns("A", dragEvent.over) :
       l.type = "open" /\ HasCard(l, dragEvent.over)

\* C4 (Scenario B): while a moderator drags a card of a restricted column
\* over an open column, every drag-over and drag-end event leaves the
\* snapshot, the store, the ledger and the fallback cache as they were and
\* issues no request
ScenarioBDenied ==
  [][(/\ role = "mod"
      /\ DragStepOntoOpen
      /\ \E l \in SourceColumns("A", dragEvent'.active) : l.type = "closed")
     => UNCHANGED << lists, dbLists, dbCards, dbActions, localStorage, tasks,
                     lastReq, nextId >>]_vars

\* a moderator's drag-over of a card of a restricted column over an open
\* column has been handled
ScenarioBWitness ==
  /\ role = "mod"
  /\ dragEvent.handler = "dragOver"
  /\ \E l \in SourceColumns("A", dragEvent.active) : l.type = "closed"
  /\ \E l \in TargetColumns("A", dragEvent.over) :
       l.type = "open" /\ l.id = dragEvent.over

\* a viewer of any role, signed in or not, whose board changes under them:
\* column visibilities are changed here and by another session, and the
\* periodic sync pulls the store
InitView == Init /\ authStorage = (IF isAuthenticated THEN SignedIn ELSE SignedOut)

NextView ==
  \/ \E newType \in ListTypes : handleListVisibilityChange("A", "L1", newType)
  \/ \E task \in tasks["A"] : updateLists_saveKanbanData("A", task)
  \/ \E newType \in ListTypes : ExternalVisibilityChange("L2", newType)
  \/ syncTick("A")
  \/ SyncSteps("A")

SpecView == InitView /\ [][NextView]_vars

\* C3 (P2, default gate): whatever the search text, a default-role viewer
\* and a viewer who is not signed in are shown only columns of visibility
\* open
DefaultGate ==
  \A t \in Tabs :
    (role = "default" \/ ~isAuthenticated) =>
      \A q \in Queries :
        \A l \in Range(filteredLists(lists[t], role, IsPublicView, q)) :
          l.type = "open"

\* a viewer who is not signed in holds a snapshot in which the restricted
\* column has become admin-only
DefaultGateWitness ==
  /\ ~isAuthenticated
  /\ \E l \in Range(lists["A"]) : l.id = "L2" /\ l.type = "hidden"

\* an admin deletes cards, drops cards on themselves and calls
\* updateCardPosition with the column and the index the card already has
InitNoOp == Init /\ role = "admin" /\ isAuthenticated /\ authStorage = SignedIn

\* the 0-based index of a card in column i of a board
IndexInList(ls, i, cardId) == FindIndex(ls[i].cards, LAMBDA card : card.id = cardId)

NextNoOp ==
  \/ \E cardId \in CardTargets("A") : handleCardDelete("A", cardId)
  \/ \E task \in tasks["A"] : deleteCard_deleteCard("A", task)
  \/ \E cardId \in CardTargets("A") : handleDragEnd("A", cardId, cardId)
  \/ \E cardId \in CardTargets("A") :
       LET o == FindListOfCard(lists["A"], cardId)
       IN  updateCardPosition("A", cardId, lists["A"][o].id,
                              IndexInList(lists["A"], o, cardId))
  \/ UpdateCardPositionSteps("A")
  \/ ReloadSteps("A")

SpecNoOp == InitNoOp /\ [][NextNoOp]_vars

\* the position value the store holds for each card, and the order of the
\* cards in each column of a snapshot
StoredPositions(C) == {<<c.id, c.list_id, c.position>> : c \in C}

CardOrder(ls) == [i \in 1..Len(ls) |-> [j \in 1..Len(ls[i].cards) |-> ls[i].cards[j].id]]

\* the operation was called with the column and the index its card has in
\* the snapshot it captured
SamePlace(task) ==
  LET o == FindListOfCard(task.lists, task.cardId)
  IN  /\ task.op = "updateCardPosition"
      /\ o # 0
      /\ task.lists[o].id = task.listId
      /\ IndexInList(task.lists, o, task.cardId) = task.position

\* C5 (P3): a card move to the column and index the card already has changes
\* no position value of the snapshot or of the store and adds no action
\* record: a drag-end of a card on itself starts nothing, and no step of an
\* updateCardPosition called with the same column and index changes them
P3IdempotentNoOp ==
  [][/\ (intents' # intents /\ dragEvent'.handler = "dragEnd"
           /\ dragEvent' # dragEvent /\ dragEvent'.active = dragEvent'.over)
        => UNCHANGED << tasks, lists, dbCards, dbActions >>
     /\ \A task \in tasks["A"] :
          (SamePlace(task) /\ task \notin tasks'["A"])
          => /\ StoredPositions(dbCards') = StoredPositions(dbCards)
             /\ dbActions' = dbActions
             /\ CardOrder(lists'["A"]) = CardOrder(lists["A"])]_vars

\* an admin renames a card, through the hook's updateCard and through
\* the card detail modal, while the store is reachable
InitEdit == Init /\ role = "admin" /\ isAuthenticated /\ authStorage = SignedIn

EditedCards == {"c1", "c3"}

NextEdit ==
  \/ \E cardId \in EditedCards, title \in Titles : updateCard("A", cardId, title)
  \/ \E task \in tasks["A"] : updateCard_updateCard("A", task)
  \/ ReloadSteps("A")
  \/ \E cardId \in EditedCards, title \in Titles : onCardUpdate("A", cardId, title)
  \/ \E task \in tasks["A"] : onCardUpdate_createCardAction("A", task)
  \/ \E task \in tasks["A"] : updateLists_saveKanbanData("A", task)

SpecEdit == InitEdit /\ [][NextEdit]_vars

\* the stored 'edited' records of a card that say its title went from
\* oldValue to newValue
EditedRecords(cardId, oldValue, newValue) ==
  {a \in dbActions :
     /\ a.cardId = cardId
     /\ a.action = "edited"
     /\ a.details = [field |-> "title", oldValue |-> oldValue, newValue |-> newValue]}

\* C6 (P4): once the first rename of a card has been accepted by the store
\* and its operation has finished, the durable ledger holds exactly one
\* 'edited' record of that card with field 'title', the old and the new
\* title
P4LedgerCompleteness ==
  (intents = 1 /\ tasks["A"] = {})
  => \A c \in dbCards :
       c.title = "T2" => Cardinality(EditedRecords(c.id, "T1", "T2")) = 1

\* a session that only watches: other sessions change the cards and the
\* ledger in the store, the store comes and goes, and the 5 s timer pulls
InitSync == Init /\ role = "admin" /\ isAuthenticated /\ authStorage = SignedIn

NextSync ==
  \/ ExternalWrite("c2")
  \/ ExternalAction("c3")
  \/ StoreDown
  \/ StoreUp
  \/ syncTick("A")
  \/ SyncSteps("A")

SpecSync == InitSync /\ [][NextSync]_vars

\* ls[1..n] are the rows of S, each once, in ascending position
InPositionOrder(ids, S) ==
  /\ Len(ids) = Cardinality(S)
  /\ {ids[i] : i \in 1..Len(ids)} = {r.id : r \in S}
  /\ \A i, j \in 1..Len(ids) :
       i < j => \A ri, rj \in S :
                  (ri.id = ids[i] /\ rj.id = ids[j]) => ri.position <= rj.position

\* the board ls shows the columns and the cards the store holds, with their
\* titles and visibilities, in the order of their positions
BoardEqualsStore(ls) ==
  /\ InPositionOrder([i \in 1..Len(ls) |-> ls[i].id], dbLists)
  /\ \A i \in 1..Len(ls) :
       /\ \E l \in dbLists : l.id = ls[i].id /\ l.title = ls[i].title /\ l.type = ls[i].type
       /\ InPositionOrder([j \in 1..Len(ls[i].cards) |-> ls[i].cards[j].id],
                          {c \in dbCards : c.list_id = ls[i].id})
       /\ \A j \in 1..Len(ls[i].cards) :
            \E c \in dbCards : c.id = ls[i].cards[j].id /\ c.title = ls[i].cards[j].title

\* and each card of ls carries exactly the records the ledger holds for it
LedgerEqualsStore(ls) ==
  \A i \in 1..Len(ls) : \A j \in 1..Len(ls[i].cards) :
    LET card == ls[i].cards[j]
        stored == {a \in dbActions : a.cardId = card.id}
    IN  /\ Len(card.actions) = Cardinality(stored)
        /\ Range(card.actions) = stored

EqualsStore(ls) == BoardEqualsStore(ls) /\ LedgerEqualsStore(ls)

\* C7 (P5): when a periodic sync completes while the store is reachable, the
\* store has not changed since the sync pulled it and the session's snapshot
\* is still the one the timer callback captured (no local mutation), the
\* snapshot then equals the store's content
P5Convergence ==
  [][\A task \in tasks["A"] :
       (/\ task.op = "sync" /\ task.pc = "loadCardActions"
        /\ task \notin tasks'["A"]
        /\ storeUp
        /\ BoardEqualsStore(task.buf)
        /\ lists["A"] = task.lists)
       => /\ EqualsStore(lists'["A"])
          /\ UNCHANGED << dbLists, dbCards, dbActions >>]_vars

\* the store was changed by other sessions, and the snapshot, replaced by a
\* sync, equals it, moved card and new ledger record included
P5ConvergenceWitness ==
  /\ external = MaxExternal
  /\ tasks["A"] = {}
  /\ lists["A"] # InitialLists
  /\ lastUpdate["A"] = now
  /\ dbActions # {}
  /\ \E c \in dbCards : c.id = "c2" /\ c.list_id # "L1"
  /\ EqualsStore(lists["A"])

\* an admin creates a card while the store comes and goes
InitOffline == Init /\ role = "admin" /\ isAuthenticated /\ authStorage = SignedIn

NextOffline ==
  \/ StoreDown
  \/ StoreUp
  \/ \E listId \in ListTargets("A"), title \in Titles : handleCreateCard("A", listId, title)
  \/ AddCardSteps("A")
  \/ ReloadSteps("A")

SpecOffline == InitOffline /\ [][NextOffline]_vars

\* C8 (Scenario C): when a card is created while the store is unreachable,
\* the card is in the snapshot and in the board kept in localStorage, and
\* the error is set
ScenarioCOfflineCreate ==
  [][\A task \in tasks["A"] :
       (/\ task.op = "addCard" /\ task.pc = "createCard"
        /\ task \notin tasks'["A"]
        /\ ~storeUp)
       => /\ \E l \in Range(lists'["A"]) : HasCard(l, task.cardId)
          /\ localStorage'.present
          /\ \E l \in Range(localStorage'.value) : HasCard(l, task.cardId)
          /\ error'["A"] # NULL]_vars

\* two tabs of one admin: tab A moves cards by drag and drop, tab B only
\* runs its periodic sync
InitTabs == Init /\ role = "admin" /\ isAuthenticated /\ authStorage = SignedIn

NextTabs ==
  \/ \E activeId \in DraggedCards, overId \in ListTargets("A") :
       handleDragOver("A", activeId, overId)
  \/ \E activeId \in DraggedCards, overId \in CardTargets("A") \cup ListTargets("A") :
       handleDragEnd("A", activeId, overId)
  \/ \E task \in tasks["A"] : updateLists_saveKanbanData("A", task)
  \/ UpdateCardPositionSteps("A")
  \/ ReloadSteps("A")
  \/ syncTick("B")
  \/ SyncSteps("B")

SpecTabs == InitTabs /\ [][NextTabs]_vars

\* C9 (Scenario D): once tab A's operations have completed, tab B, which has
\* sent no request to the store, holds the same snapshot as tab A
ScenarioDCrossTab ==
  (tasks["A"] = {} /\ tasks["B"] = {} /\ lastReq["B"] = "none")
  => lists["B"] = lists["A"]

\* an admin deletes cards and moves cards between columns while the store
\* comes and goes and the periodic sync runs
InitEngine == Init /\ role = "admin" /\ isAuthenticated /\ authStorage = SignedIn

NextEngine ==
  \/ StoreDown
  \/ StoreUp
  \/ \E cardId \in DraggedCards : handleCardDelete("A", cardId)
  \/ \E task \in tasks["A"] : deleteCard_deleteCard("A", task)
  \/ ReloadSteps("A")
  \/ \E activeId \in DraggedCards, overId \in ListTargets("A") :
       handleDragOver("A", activeId, overId)
  \/ \E task \in tasks["A"] : updateLists_saveKanbanData("A", task)
  \/ syncTick("A")
  \/ SyncSteps("A")

SpecEngine == InitEngine /\ [][NextEngine]_vars

\* C10 (engine state machine): after a failed request to the store the error
\* is set, and after a successful one it is cleared
EngineStateMachine ==
  \A t \in Tabs :
    /\ lastReq[t] = "fail" => error[t] # NULL
    /\ lastReq[t] = "ok" => error[t] = NULL

\* an admin moves cards between columns while the store comes and goes,
\* and reloads the page
InitStart == Init /\ role = "admin" /\ isAuthenticated /\ authStorage = SignedIn

NextStart ==
  \/ StoreDown
  \/ StoreUp
  \/ \E activeId \in DraggedCards, overId \in ListTargets("A") :
       handleDragOver("A", activeId, overId)
  \/ \E task \in tasks["A"] : updateLists_saveKanbanData("A", task)
  \/ pageLoad("A")
  \/ InitializeDataSteps("A")

SpecStart == InitStart /\ [][NextStart]_vars

\* C11 (initial load from cache): while the store is unreachable, a step of
\* the session start keeps the board held in localStorage, and the step
\* that ends the loading makes it the snapshot, with no error
InitialLoadFromCache ==
  [][\A task \in tasks["A"] :
       (/\ task.op = "initializeData"
        /\ task \notin tasks'["A"]
        /\ ~storeUp
        /\ localStorage.present)
       => /\ localStorage' = localStorage
          /\ tasks'["A"] = {} =>
               /\ lists'["A"] = localStorage.value
               /\ ~isLoading'["A"]
               /\ error'["A"] = NULL]_vars

\* C12 (last-writer-loses): no step of a session start makes the store's
\* columns and cards those of the board held in localStorage
CacheNeverPushed ==
  [][\A task \in tasks["A"] :
       (/\ task.op = "initializeData"
        /\ task \notin tasks'["A"]
        /\ localStorage.present
        /\ << dbLists', dbCards' >> # << dbLists, dbCards >>)
       => << dbLists', dbCards' >> # << ListRows(localStorage.value),
                                        CardRows(localStorage.value) >>]_vars

\* an admin drops cards on other columns while the store comes and goes
InitMoveFail == Init /\ role = "admin" /\ isAuthenticated /\ authStorage = SignedIn

NextMoveFail ==
  \/ StoreDown
  \/ StoreUp
  \/ \E activeId \in DraggedCards, overId \in CardTargets("A") \cup ListTargets("A") :
       handleDragEnd("A", activeId, overId)
  \/ UpdateCardPositionSteps("A")
  \/ ReloadSteps("A")

SpecMoveFail == InitMoveFail /\ [][NextMoveFail]_vars

\* C13 (failure of a card move): when the PUT of updateCardPosition fails,
\* the promise is not rejected, the snapshot shows the card in the column it
\* was moved to, that snapshot is in localStorage and the error is set
MoveFailureAbsorbed ==
  [][\A task \in tasks["A"] :
       (/\ task.op = "updateCardPosition" /\ task.pc = "updateCard"
        /\ task \notin tasks'["A"]
        /\ ~storeUp)
       => /\ "updateCardPosition" \notin rejected'
          /\ \E l \in Range(lists'["A"]) : l.id = task.listId /\ HasCard(l, task.cardId)
          /\ localStorage'.present
          /\ localStorage'.value = lists'["A"]
          /\ error'["A"] # NULL]_vars

\* an admin creates cards under every content the storage items
\* 'auth_token' and 'discord_user' can have
InitActor == Init /\ role = "admin" /\ isAuthenticated

NextActor ==
  \/ \E title \in Titles : handleCreateCard("A", "L1", title)
  \/ AddCardSteps("A")

SpecActor == InitActor /\ [][NextActor]_vars

\* the ids and names the storage holds for the viewer
StoredIds == {authStorage.token.userId, authStorage.user.id} \ {NULL}

StoredNames ==
  {authStorage.token.username, authStorage.user.username,
   authStorage.user.global_name, authStorage.user.display_name} \ {NULL}

\* the records the session has made: those stored and those about to be sent
MadeRecords ==
  dbActions \cup UNION {Range(task.acts) : task \in tasks["A"]}

\* C14 (actor rule): every record made carries an id and a name that the
\* storage holds for the viewer, so none is made when it holds none
ActorRule ==
  \A a \in MadeRecords : a.userId \in StoredIds /\ a.username \in StoredNames

\* an admin edits cards and changes a column's visibility while another
\* session stores records
InitLedger == Init /\ role = "admin" /\ isAuthenticated /\ authStorage = SignedIn

NextLedger ==
  \/ ExternalAction("c1")
  \/ \E cardId \in EditedCards, title \in Titles : onCardUpdate("A", cardId, title)
  \/ \E task \in tasks["A"] : onCardUpdate_createCardAction("A", task)
  \/ \E newType \in ListTypes : handleListVisibilityChange("A", "L1", newType)
  \/ \E task \in tasks["A"] : updateLists_saveKanbanData("A", task)

SpecLedger == InitLedger /\ [][NextLedger]_vars

\* C15 (append-only ledger): a record of card_actions whose card is still
\* stored after a step is still stored after it, with the same fields
LedgerAppendOnly ==
  [][\A a \in dbActions :
       (\E c \in dbCards' : c.id = a.cardId) => a \in dbActions']_vars

\* columns are deleted by this session's admin and by another client while
\* records of c1 are stored
InitCascade == Init /\ role = "admin" /\ isAuthenticated /\ authStorage = SignedIn

DeletedLists == {"L1", "L2"}

NextCascade ==
  \/ ExternalAction("c1")
  \/ \E listId \in DeletedLists : ExternalDeleteList(listId)
  \/ \E listId \in DeletedLists : handleListDelete("A", listId)
  \/ \E task \in tasks["A"] : updateLists_saveKanbanData("A", task)
  \/ syncTick("A")
  \/ SyncSteps("A")

SpecCascade == InitCascade /\ [][NextCascade]_vars

\* C16 (cascade on column deletion): a step after which a stored column is
\* no longer stored leaves no stored card owned by that column and no stored
\* record of a card that was in it
ColumnCascade ==
  [][\A l \in dbLists :
       (~ \E m \in dbLists' : m.id = l.id)
       => /\ ~ \E c \in dbCards' : c.list_id = l.id
          /\ \A c \in dbCards :
               c.list_id = l.id => ~ \E a \in dbActions' : a.cardId = c.id]_vars

\* column L1 is gone from the store after a record of its card c1 was made
ColumnCascadeWitness ==
  /\ ~ \E l \in dbLists : l.id = "L1"
  /\ nextId > 0

\* an admin drags card c1 across columns while another session moves c2
\* and the periodic sync runs
InitOwner == Init /\ role = "admin" /\ isAuthenticated /\ authStorage = SignedIn

NextOwner ==
  \/ handleDragOver("A", "c1", ListPrefixed["L2"])
  \/ handleDragEnd("A", "c1", ListPrefixed["L2"])
  \/ \E task \in tasks["A"] : updateLists_saveKanbanData("A", task)
  \/ UpdateCardPositionSteps("A")
  \/ ReloadSteps("A")
  \/ ExternalMove("c2", "L2")
  \/ syncTick("A")
  \/ SyncSteps("A")

SpecOwner == InitOwner /\ [][NextOwner]_vars

\* the number of places of the snapshot that hold card id
Occurrences(ls, id) ==
  Cardinality({i \in 1..Len(FlatCards(ls)) : FlatCards(ls)[i].id = id})

\* C17 (single ownership): every card of the board is in exactly one place
\* of the snapshot and is exactly one row of the store, owned by a stored
\* column, in every state, those between the steps of a move included
SingleOwnership ==
  \A id \in {"c1", "c2", "c3"} :
    /\ Occurrences(lists["A"], id) = 1
    /\ Cardinality({c \in dbCards : c.id = id}) = 1
    /\ \A c \in dbCards : c.id = id => \E l \in dbLists : l.id = c.list_id

\* card c1 has left column L1 in the snapshot and in the store
SingleOwnershipWitness ==
  /\ \E l \in Range(lists["A"]) : l.id # "L1" /\ HasCard(l, "c1")
  /\ \E c \in dbCards : c.id = "c1" /\ c.list_id # "L1"

\* a moderator renames, archives and deletes columns from their menus
InitModColumn == Init /\ role = "mod" /\ isAuthenticated /\ authStorage = SignedIn

MenuLists == {"L1", "L2", "L3"}

NextModColumn ==
  \/ \E listId \in MenuLists, title \in Titles : handleListEdit("A", listId, title)
  \/ \E listId \in MenuLists : handleListArchive("A", listId)
  \/ \E listId \in MenuLists : handleListDelete("A", listId)
  \/ \E task \in tasks["A"] : updateLists_saveKanbanData("A", task)

SpecModColumn == InitModColumn /\ [][NextModColumn]_vars

\* the admin-only columns as id, title and card ids: of the store, of a
\* snapshot
HiddenStored ==
  {<< l.id, l.title, {c.id : c \in {c \in dbCards : c.list_id = l.id}} >>
     : l \in {l \in dbLists : l.type = "hidden"}}

HiddenShown(ls) ==
  {<< l.id, l.title, {c.id : c \in Range(l.cards)} >>
     : l \in {l \in Range(ls) : l.type = "hidden"}}

\* C18 (moderator column gate): no step of a moderator's session changes
\* the admin-only columns of the store or of the snapshot
ModeratorColumnGate ==
  [][role = "mod" =>
       /\ HiddenStored' = HiddenStored
       /\ HiddenShown(lists'["A"]) = HiddenShown(lists["A"])]_vars

\* a viewer of role default tries to drag cards and drops images on the
\* card detail modal while the store comes and goes
InitDefault ==
  Init /\ role = "default" /\ authStorage = (IF isAuthenticated THEN SignedIn ELSE SignedOut)

NextDefault ==
  \/ StoreDown
  \/ StoreUp
  \/ \E activeId \in CardTargets("A"), overId \in OverIds("A") :
       handleDragOver("A", activeId, overId)
  \/ \E activeId \in CardTargets("A"), overId \in OverIds("A") :
       handleDragEnd("A", activeId, overId)
  \/ \E cardId \in CardTargets("A") : processFiles("A", cardId)
  \/ \E task \in tasks["A"] : processFiles_uploadFile("A", task)
  \/ \E task \in tasks["A"] : updateLists_saveKanbanData("A", task)

SpecDefault == InitDefault /\ [][NextDefault]_vars

\* C19 (default-role write gate): no step of a default-role viewer's session
\* changes the store or the snapshot, or gets a write answered
DefaultWriteGate ==
  [][role = "default" =>
       /\ << dbLists', dbCards', dbActions', settings', uploads' >>
            = << dbLists, dbCards, dbActions, settings, uploads >>
       /\ lists'["A"] = lists["A"]
       /\ lastReq' = lastReq]_vars

\* an admin makes one mutation of each kind through the hook
InitOptimistic == Init /\ role = "admin" /\ isAuthenticated /\ authStorage = SignedIn

NextOptimistic ==
  \/ \E newType \in ListTypes : handleListVisibilityChange("A", "L1", newType)
  \/ \E task \in tasks["A"] : updateLists_saveKanbanData("A", task)
  \/ \E overId \in ListTargets("A") : handleDragEnd("A", "c1", overId)
  \/ UpdateCardPositionSteps("A")
  \/ handleCreateCard("A", "L1", "T1")
  \/ AddCardSteps("A")
  \/ \E title \in Titles : updateCard("A", "c1", title)
  \/ \E task \in tasks["A"] : updateCard_updateCard("A", task)
  \/ handleCardDelete("A", "c1")
  \/ \E task \in tasks["A"] : deleteCard_deleteCard("A", task)
  \/ ReloadSteps("A")

SpecOptimistic == InitOptimistic /\ [][NextOptimistic]_vars

\* the snapshot shows card cardId with that title
ShowsTitle(ls, cardId, title) ==
  \E i \in 1..Len(FlatCards(ls)) :
    FlatCards(ls)[i].id = cardId /\ FlatCards(ls)[i].title = title

\* C20 (optimistic ordering): while a mutation's request to the store has
\* not been issued yet, the snapshot already shows the mutation
OptimisticOrdering ==
  \A task \in tasks["A"] :
    /\ (task.op = "updateLists" /\ task.pc = "saveKanbanData")
         => lists["A"] = task.buf
    /\ (task.op = "updateCardPosition" /\ task.pc = "updateCard")
         => \E l \in Range(lists["A"]) : l.id = task.listId /\ HasCard(l, task.cardId)
    /\ (task.op = "addCard" /\ task.pc = "createCard")
         => FindListOfCard(lists["A"], task.cardId) # 0
    /\ (task.op = "updateCard" /\ task.pc = "updateCard")
         => ShowsTitle(lists["A"], task.cardId, task.title)
    /\ (task.op = "deleteCard" /\ task.pc = "deleteCard")
         => FindListOfCard(lists["A"], task.cardId) = 0

\* an admin changes a column's visibility while time passes and
\* 'board-updated' events of any age reach the window
InitGuard == Init /\ role = "admin" /\ isAuthenticated /\ authStorage = SignedIn

BroadcastLists ==
  {InitialLists, WithVisibility(InitialLists, "L2", "open")}

NextGuard ==
  \/ AdvanceClock
  \/ handleListVisibilityChange("A", "L1", "closed")
  \/ \E task \in tasks["A"] : updateLists_saveKanbanData("A", task)
  \/ \E ls \in BroadcastLists, ts \in 0..MaxClock : boardUpdated("A", ls, ts)

SpecGuard == InitGuard /\ [][NextGuard]_vars

\* C21 (staleness guard): an event reaching the window replaces snapshot and
\* timestamp by its own when its timestamp is greater than the window's, and
\* leaves both as they are otherwise; the window's timestamp never decreases
StalenessGuard ==
  [][/\ (external' # external) =>
          IF dispatched'["A"].timestamp > lastUpdate["A"]
          THEN /\ lists'["A"] = dispatched'["A"].lists
               /\ lastUpdate'["A"] = dispatched'["A"].timestamp
          ELSE /\ lists'["A"] = lists["A"]
               /\ lastUpdate'["A"] = lastUpdate["A"]
     /\ lastUpdate'["A"] >= lastUpdate["A"]]_vars

\* an event older than the window's timestamp arrived with another board
\* and the window kept its own
StalenessGuardWitness ==
  /\ dispatched["A"].present
  /\ dispatched["A"].timestamp < lastUpdate["A"]
  /\ dispatched["A"].lists # lists["A"]

\* an admin changes the visibility of column L1 (m1) and then renames
\* column L2 (m2), the second possibly before the first was answered, while
\* the store comes and goes
InitInOrder == Init /\ role = "admin" /\ isAuthenticated /\ authStorage = SignedIn

NextInOrder ==
  \/ StoreDown
  \/ StoreUp
  \/ \E newType \in {"closed", "hidden"} :
       intents = 0 /\ updateLists("A", WithVisibility(lists["A"], "L1", newType))
  \/ \E title \in Titles :
       intents = 1 /\ updateLists("A", WithListTitle(lists["A"], "L2", title))
  \/ \E task \in tasks["A"] : updateLists_saveKanbanData("A", task)

SpecInOrder == InitInOrder /\ [][NextInOrder]_vars

\* C22 (in-order application): once both mutations were invoked and nothing
\* is in flight, the snapshot shows the visibility change of L1 and the new
\* title of L2
InOrderApplication ==
  (intents = 2 /\ tasks["A"] = {})
    => /\ \E l \in Range(lists["A"]) : l.id = "L1" /\ l.type # "open"
       /\ \E l \in Range(lists["A"]) : l.id = "L2" /\ l.title \in Titles

\* an admin drops cards on cards and columns
InitPositions == Init /\ role = "admin" /\ isAuthenticated /\ authStorage = SignedIn

NextPositions ==
  \/ \E activeId \in DraggedCards, overId \in CardTargets("A") \cup ListTargets("A") :
       handleDragEnd("A", activeId, overId)
  \/ UpdateCardPositionSteps("A")
  \/ ReloadSteps("A")

SpecPositions == InitPositions /\ [][NextPositions]_vars

\* the stored cards of column listId carry the positions 0 .. n-1, each once
Renumbered(C, listId) ==
  LET S == {c \in C : c.list_id = listId}
  IN  /\ {c.position : c \in S} = 0..(Cardinality(S) - 1)
      /\ \A c, d \in S : c.position = d.position => c = d

\* C23 (full-state position writes): the write of a card move leaves the
\* column the card came from and the column it went to with completely
\* renumbered positions
FullStatePositionWrites ==
  [][\A task \in tasks["A"] :
       (/\ task.op = "updateCardPosition" /\ task.pc = "updateCard"
        /\ task \notin tasks'["A"]
        /\ dbCards' # dbCards)
       => \A c \in dbCards :
            c.id = task.cardId
              => Renumbered(dbCards', c.list_id) /\ Renumbered(dbCards', task.listId)]_vars

\* an admin makes one drag of card c1, which starts in column L1: drag-over
\* events, then the drop
InitMoveLog == Init /\ role = "admin" /\ isAuthenticated /\ authStorage = SignedIn

NextMoveLog ==
  \/ \E overId \in OverIds("A") :
       dragEvent.handler # "dragEnd" /\ handleDragOver("A", "c1", overId)
  \/ \E overId \in OverIds("A") :
       dragEvent.handler # "dragEnd" /\ handleDragEnd("A", "c1", overId)
  \/ \E task \in tasks["A"] : updateLists_saveKanbanData("A", task)
  \/ UpdateCardPositionSteps("A")
  \/ ReloadSteps("A")

SpecMoveLog == InitMoveLog /\ [][NextMoveLog]_vars

\* C24 (move logging): when the drag is over and nothing is in flight, one
\* record was made if the store holds c1 in another column than L1, none if
\* it holds it in L1, and a stored record is a 'moved' record from 'To Do'
\* to the column that holds the card
MoveLogging ==
  (dragEvent.handler = "dragEnd" /\ tasks["A"] = {})
    => \A c \in dbCards :
         c.id = "c1"
           => /\ nextId = (IF c.list_id # "L1" THEN 1 ELSE 0)
              /\ \A a \in dbActions :
                   /\ a.action = "moved"
                   /\ a.details.from = "To Do"
                   /\ \E l \in dbLists : l.id = c.list_id /\ l.title = a.details.to

\* an admin, signed in or without a stored identity, creates a card and
\* moves one while the store goes down and comes back
InitNoBlock ==
  Init /\ role = "admin" /\ isAuthenticated /\ authStorage \in {SignedIn, SignedOut}

NextNoBlock ==
  \/ StoreDown
  \/ StoreUp
  \/ \E title \in Titles : handleCreateCard("A", "L1", title)
  \/ AddCardSteps("A")
  \/ handleDragEnd("A", "c1", ListPrefixed["L2"])
  \/ UpdateCardPositionSteps("A")
  \/ ReloadSteps("A")

SpecNoBlock == InitNoBlock /\ [][NextNoBlock]_vars

\* C25 (ledger writes never block the mutation): once the card creation is
\* over, a card that reached the durable store is in the in-memory snapshot
\* too, whether or not its 'created' record could be built and persisted
LedgerNeverBlocks ==
  (created = 1 /\ tasks["A"] = {})
    => \A c \in dbCards :
         c.id = NewCardIdSeq[1]
           => \E k \in Range(FlatCards(lists["A"])) : k.id = c.id

\* ------------------------------------------- hook: useLocalCardActions
\* records of the open card as the ledger holds them; nothing in the
\* program makes a comment record, and every record carries its actor
EntryIds == {"a1", "a2", "a3"}

EntryTimestamps == {1, 2}

LedgerEntries ==
  [id : EntryIds, timestamp : EntryTimestamps, username : {"alice"}, action : {"moved"}]

\* most records the buffer of one card holds
MaxCached == 2

\* calls of mergeWithApiActions made while the card is open
MaxMerges == 1

DistinctIds(s) == \A i, j \in 1..Len(s) : s[i].id = s[j].id => i = j

\* responses of GET /api/cards/:cardId/actions: rows of card_actions, whose
\* id is the primary key
ApiResponses ==
  {s \in UNION {[1..n -> {e \in LedgerEntries : e.id # "a3"}] : n \in 0..2} :
     DistinctIds(s)}

RECURSIVE InsertAscending(_, _)
\* x placed after every element whose timestamp is not greater
InsertAscending(s, x) ==
  IF s = << >> THEN <<x>>
  ELSE IF s[Len(s)].timestamp <= x.timestamp THEN Append(s, x)
  ELSE Append(InsertAscending(SubSeq(s, 1, Len(s) - 1), x), s[Len(s)])

RECURSIVE SortAscending(_)
\* Array.prototype.sort((a, b) => a.timestamp - b.timestamp), a stable sort
SortAscending(s) ==
  IF s = << >> THEN << >>
  ELSE InsertAscending(SortAscending(SubSeq(s, 1, Len(s) - 1)), s[Len(s)])

RECURSIVE InsertDescending(_, _)
\* x placed after every element whose timestamp is not smaller
InsertDescending(s, x) ==
  IF s = << >> THEN <<x>>
  ELSE IF s[Len(s)].timestamp >= x.timestamp THEN Append(s, x)
  ELSE Append(InsertDescending(SubSeq(s, 1, Len(s) - 1), x), s[Len(s)])

RECURSIVE SortDescending(_)
\* Array.prototype.sort((a, b) => b.timestamp - a.timestamp), a stable sort
SortDescending(s) ==
  IF s = << >> THEN << >>
  ELSE InsertDescending(SortDescending(SubSeq(s, 1, Len(s) - 1)), s[Len(s)])

\* LocalActionStorage.getActions: the cached actions by timestamp
getActions(cache) ==
  SortAscending([i \in 1..Len(cache) |-> cache[i].action])

\* a merge that appends every local action
mergeWithApiActionsAll(cache, apiActions) ==
  SortAscending(apiActions \o getActions(cache))

\* LocalActionStorage.mergeWithApiActions: the response, plus the local
\* actions whose id is not in the response, sorted by timestamp
mergeWithApiActions(cache, apiActions) ==
  LET localActions == getActions(cache)
      existsInApi(a) == \E i \in 1..Len(apiActions) : apiActions[i].id = a.id
      notInApi[i \in 0..Len(localActions)] ==
        IF i = 0 THEN << >>
        ELSE IF existsInApi(localActions[i]) THEN notInApi[i - 1]
        ELSE Append(notInApi[i - 1], localActions[i])
  IN  SortAscending(apiActions \o notInApi[Len(localActions)])

\* LocalActionStorage.addAction: pushed with the time of caching unless an
\* entry with the same action id is cached
addAction(action) ==
  /\ Len(actionCache) < MaxCached
  /\ actionCache' =
       IF \E i \in 1..Len(actionCache) : actionCache[i].action.id = action.id
       THEN actionCache
       ELSE Append(actionCache, [action |-> action, timestamp |-> now])
  /\ UNCHANGED << dbVars, storeUp, settings, uploads, lists, lastUpdate, isLoading,
                  error, tasks, localStorage, role, isAuthenticated, authStorage,
                  dispatched, now, nextId, created, lastReq, rejected, dragEvent,
                  external, intents, discordAuthVars, merged, shown >>

\* useLocalCardActions().mergeWithApiActions(apiActions)
callMergeWithApiActions(apiActions) ==
  /\ merged.n < MaxMerges
  /\ merged' = [n |-> merged.n + 1,
                localActions |-> getActions(actionCache),
                apiActions |-> apiActions,
                result |-> mergeWithApiActions(actionCache, apiActions)]
  /\ UNCHANGED << dbVars, storeUp, settings, uploads, lists, lastUpdate, isLoading,
                  error, tasks, localStorage, role, isAuthenticated, authStorage,
                  dispatched, now, nextId, created, lastReq, rejected, dragEvent,
                  external, intents, discordAuthVars, actionCache, shown >>

\* CardHistory: realActions drops comment records and records without a
\* username or with a timestamp that is not positive; sortedActions is
\* what is left, newest first
sortedActions(actions) ==
  LET keep(a) == /\ a.action \notin {"comment_added", "comment_edited", "comment_deleted"}
                 /\ a.username # NULL
                 /\ a.timestamp > 0
      realActions[i \in 0..Len(actions)] ==
        IF i = 0 THEN << >>
        ELSE IF keep(actions[i]) THEN Append(realActions[i - 1], actions[i])
        ELSE realActions[i - 1]
  IN  SortDescending(realActions[Len(actions)])

\* a render of CardHistory with the merged records as its actions
CardHistory ==
  /\ shown' = [actions |-> merged.result, sortedActions |-> sortedActions(merged.result)]
  /\ UNCHANGED << dbVars, storeUp, settings, uploads, lists, lastUpdate, isLoading,
                  error, tasks, localStorage, role, isAuthenticated, authStorage,
                  dispatched, now, nextId, created, lastReq, rejected, dragEvent,
                  external, intents, discordAuthVars, actionCache, merged >>

InitMerge == Init /\ role = "admin" /\ isAuthenticated /\ authStorage = SignedIn

NextMerge ==
  \/ \E action \in LedgerEntries : addAction(action)
  \/ \E apiActions \in ApiResponses : callMergeWithApiActions(apiActions)
  \/ CardHistory

SpecMerge == InitMerge /\ [][NextMerge]_vars

Ascending(s) == \A i, j \in 1..Len(s) : i < j => s[i].timestamp <= s[j].timestamp

Descending(s) == \A i, j \in 1..Len(s) : i < j => s[i].timestamp >= s[j].timestamp

\* C26 (ledger read merge): the value returned holds every record of the
\* response and every buffered record whose id is not in the response and
\* nothing else, no two of its entries share an id, and it is sorted by
\* timestamp ascending; the history view shows the same records by
\* timestamp descending
LedgerReadMerge ==
  LET api == merged.apiActions
      loc == merged.localActions
      r == merged.result
  IN  /\ Range(api) \subseteq Range(r)
      /\ \A a \in Range(loc) : (\A b \in Range(api) : b.id # a.id) => a \in Range(r)
      /\ Range(r) \subseteq Range(api) \cup Range(loc)
      /\ {e.id : e \in Range(r)} = {e.id : e \in Range(api) \cup Range(loc)}
      /\ DistinctIds(r)
      /\ Ascending(r)
      /\ Range(shown.sortedActions) = Range(shown.actions)
      /\ Len(shown.sortedActions) = Len(shown.actions)
      /\ Descending(shown.sortedActions)

LedgerReadMergeWitness ==
  /\ merged.n = 1
  /\ \E a \in Range(merged.localActions) : \E b \in Range(merged.apiActions) : a.id = b.id
  /\ \E a \in Range(merged.localActions) : \A b \in Range(merged.apiActions) : a.id # b.id
  /\ shown.actions = merged.result
  /\ \E i, j \in 1..Len(merged.result) : merged.result[i].timestamp < merged.result[j].timestamp

\* --------------------------------------------- hook: updateListPosition
\* DatabaseService.updateList(id, { position }): UPDATE lists SET position =
\* COALESCE(?, position) WHERE id = ?, the other rows are not touched
UpdateListPosition(L, id, position) ==
  {IF l.id = id THEN [l EXCEPT !.position = position] ELSE l : l \in L}

\* the call: PUT /api/lists/:listId with { position: newPosition } issued
updateListPosition(t, listId, newPosition) ==
  /\ CanStart(t)
  /\ tasks' = Start(t, [NewTask(t, "updateListPosition", "updateList") EXCEPT
                          !.listId = listId, !.position = newPosition])
  /\ intents' = intents + 1
  /\ UNCHANGED << dbVars, storeUp, settings, uploads, lists, lastUpdate, isLoading,
                  error, localStorage, role, isAuthenticated, discordAuthVars,
                  localActionVars, authStorage, dispatched, now, nextId, created,
                  lastReq, rejected, dragEvent, external >>

\* await apiClient.updateList(listId, { position: newPosition }); a failure
\* goes to the catch block, otherwise the reload follows
updateListPosition_updateList(t, task) ==
  /\ task \in tasks[t] /\ task.op = "updateListPosition" /\ task.pc = "updateList"
  /\ lastReq' = [lastReq EXCEPT ![t] = IF storeUp THEN "ok" ELSE "fail"]
  /\ IF storeUp
     THEN /\ dbLists' = UpdateListPosition(dbLists, task.listId, task.position)
          /\ tasks' = Replace(t, task, [task EXCEPT !.pc = "getListsByBoard"])
          /\ UNCHANGED << lists, lastUpdate, error, localStorage, nextId, rejected >>
     ELSE /\ setErrorCatch(t, task)
          /\ UNCHANGED dbLists
  /\ UNCHANGED << dbCards, dbActions, storeUp, settings, uploads, isLoading, role,
                  isAuthenticated, discordAuthVars, localActionVars, authStorage,
                  dispatched, now, created, dragEvent, external, intents >>

\* an admin reorders columns by drag, deletes one, and sets a column's
\* position through updateListPosition
InitColumns == Init /\ role = "admin" /\ isAuthenticated /\ authStorage = SignedIn

NextColumns ==
  \/ \E activeId \in PrefixedTargets("A"), overId \in PrefixedTargets("A") :
       handleDragEnd("A", activeId, overId)
  \/ \E listId \in ListIds : handleListDelete("A", listId)
  \/ \E task \in tasks["A"] : updateLists_saveKanbanData("A", task)
  \/ \E listId \in ListIds, newPosition \in 0..2 :
       updateListPosition("A", listId, newPosition)
  \/ \E task \in tasks["A"] : updateListPosition_updateList("A", task)
  \/ ReloadSteps("A")

SpecColumns == InitColumns /\ [][NextColumns]_vars

\* C27 (column ordering invariant): no two columns of the durable store
\* share a position value
ColumnOrdering ==
  \A a, b \in dbLists : a.position = b.position => a = b

\* something other than the program (the viewer, an older build) leaves
\* text that is not JSON in the item 'trello_board_state'
StorageCorrupted ==
  /\ external < MaxExternal
  /\ localStorage # MalformedStored
  /\ localStorage' = MalformedStored
  /\ external' = external + 1
  /\ UNCHANGED << dbVars, storeUp, settings, uploads, lists, lastUpdate, isLoading,
                  error, tasks, role, isAuthenticated, discordAuthVars,
                  localActionVars, authStorage, dispatched, now, nextId, created,
                  lastReq, rejected, dragEvent, intents >>

\* the session starts with the page load; the store goes down and comes
\* back, the cached item may be corrupted, and the viewer drags a card
InitLoad == Init /\ role = "admin" /\ isAuthenticated /\ authStorage = SignedIn

NextLoad ==
  \/ StoreDown
  \/ StoreUp
  \/ StorageCorrupted
  \/ intents = 0 /\ pageLoad("A")
  \/ InitializeDataSteps("A")
  \/ intents > 0 /\ handleDragOver("A", "c1", ListPrefixed["L2"])
  \/ \E task \in tasks["A"] : updateLists_saveKanbanData("A", task)

SpecLoad == InitLoad /\ [][NextLoad]_vars

\* every request initializeData awaits settles, and the continuation runs
SpecLoadFair == SpecLoad /\ WF_vars(InitializeDataSteps("A"))

\* C28 (initial load always terminates): a session that is loading gets to
\* isLoading = false, and once the page has been loaded no step takes a
\* session that is not loading back to loading
InitialLoadTerminates ==
  /\ isLoading["A"] ~> ~isLoading["A"]
  /\ [][(intents > 0 /\ ~isLoading["A"]) => ~isLoading'["A"]]_vars

InitialLoadTerminatesWitness ==
  /\ intents > 0
  /\ tasks["A"] = {}
  /\ ~isLoading["A"]
  /\ error["A"] = "Unexpected token"

\* ------------------------------------------ discordAuth: code exchange
MAX_FAILED_ATTEMPTS == 3

COOLDOWN_PERIOD == 60000

\* delay of the setTimeout that forgets a code after a successful exchange
CODE_RELEASE_DELAY == 30000

\* milliseconds between two readings of the clock
TickMs == 30000

\* most exchangeDiscordCode calls of a session, and the last clock reading
MaxCalls == 4

MaxAuthClock == 3

AuthCodes == {"k1", "k2"}

\* the codes successive sign-in attempts come back with
FreshCodes == <<"k1", "k2", "k3", "k4", "k5">>

DateNow == now * TickMs

Pending == {f \in fetches : f.state = "pending"}

\* time goes by while a request is awaited or between two attempts
TimePasses ==
  /\ now < MaxAuthClock
  /\ now' = now + 1
  /\ UNCHANGED << dbVars, storeUp, settings, uploads, lists, lastUpdate, isLoading,
                  error, tasks, localStorage, role, isAuthenticated, discordAuthVars,
                  localActionVars, authStorage, dispatched, nextId, created, lastReq,
                  rejected, dragEvent, external, intents >>

\* an exchange that never marks its code
MarkUsedNever(codes, code) == codes

\* usedAuthCodes.add(code)
MarkUsed(codes, code) == codes \cup {code}

\* exchangeDiscordCode(code) up to its first await: the used-code check, the
\* cooldown check, the reset of failedAttempts once the cooldown has passed,
\* the code marked as used and POST /api/discord-auth issued
exchangeDiscordCode(code) ==
  /\ lastCall.n < MaxCalls
  /\ LET used == code \in usedAuthCodes
         cooling == /\ failedAttempts >= MAX_FAILED_ATTEMPTS
                    /\ (DateNow - lastFailTime) < COOLDOWN_PERIOD
     IN  /\ lastCall' = [n |-> lastCall.n + 1, code |-> code,
                         thrown |-> IF used THEN "used"
                                    ELSE IF cooling THEN "cooldown" ELSE "none"]
         /\ IF used \/ cooling
            THEN UNCHANGED << failedAttempts, usedAuthCodes, fetches >>
            ELSE /\ failedAttempts' = IF (DateNow - lastFailTime) >= COOLDOWN_PERIOD
                                      THEN 0 ELSE failedAttempts
                 /\ usedAuthCodes' = MarkUsed(usedAuthCodes, code)
                 /\ fetches' = fetches \cup
                      {[n |-> lastCall.n + 1, code |-> code, now |-> DateNow,
                        state |-> "pending", at |-> 0]}
  /\ UNCHANGED << dbVars, storeUp, settings, uploads, lists, lastUpdate, isLoading,
                  error, tasks, localStorage, role, isAuthenticated, lastFailTime,
                  timers, localActionVars, authStorage, dispatched, now, nextId,
                  created, lastReq, rejected, dragEvent, external, intents >>

\* the request settles: response.ok resets failedAttempts and, after the
\* body is read, arms the timer that forgets the code; a non-OK response
\* counts a failure and stores the time the call read as lastFailTime; a
\* rejected fetch only rethrows
exchangeDiscordCode_fetch(f, outcome) ==
  /\ f \in Pending
  /\ fetches' = (fetches \ {f}) \cup {[f EXCEPT !.state = outcome, !.at = DateNow]}
  /\ CASE outcome = "ok" ->
            /\ failedAttempts' = 0
            /\ timers' = timers \cup {[code |-> f.code, due |-> DateNow + CODE_RELEASE_DELAY]}
            /\ UNCHANGED lastFailTime
       [] outcome = "notOk" ->
            /\ failedAttempts' = failedAttempts + 1
            /\ lastFailTime' = f.now
            /\ UNCHANGED timers
       [] outcome = "error" ->
            UNCHANGED << failedAttempts, lastFailTime, timers >>
  /\ UNCHANGED << dbVars, storeUp, settings, uploads, lists, lastUpdate, isLoading,
                  error, tasks, localStorage, role, isAuthenticated, usedAuthCodes,
                  lastCall, localActionVars, authStorage, dispatched, now, nextId,
                  created, lastReq, rejected, dragEvent, external, intents >>

\* the setTimeout callback, not before its delay: usedAuthCodes.delete(code)
exchangeDiscordCode_setTimeout(timer) ==
  /\ timer \in timers
  /\ DateNow >= timer.due
  /\ usedAuthCodes' = usedAuthCodes \ {timer.code}
  /\ timers' = timers \ {timer}
  /\ UNCHANGED << dbVars, storeUp, settings, uploads, lists, lastUpdate, isLoading,
                  error, tasks, localStorage, role, isAuthenticated, failedAttempts,
                  lastFailTime, fetches, lastCall, localActionVars, authStorage,
                  dispatched, now, nextId, created, lastReq, rejected, dragEvent,
                  external, intents >>

\* the callback page and whatever else calls the exchange, with codes that
\* may repeat, while earlier requests are still in flight
InitCode == Init /\ role = "default" /\ ~isAuthenticated /\ authStorage = SignedOut

NextCode ==
  \/ TimePasses
  \/ \E code \in AuthCodes : exchangeDiscordCode(code)
  \/ \E f \in fetches, outcome \in {"ok", "notOk", "error"} :
       exchangeDiscordCode_fetch(f, outcome)
  \/ \E timer \in timers : exchangeDiscordCode_setTimeout(timer)

SpecCode == InitCode /\ [][NextCode]_vars

\* C29 (authorization code single use): a code with a request in flight, a
\* code whose exchange failed and a code exchanged less than 30 s ago are
\* marked as used; a call with a marked code throws without issuing a
\* request; no code has two requests in flight
CodeSingleUse ==
  /\ [](\A f \in fetches :
          (\/ f.state \in {"pending", "notOk", "error"}
           \/ f.state = "ok" /\ DateNow - f.at < CODE_RELEASE_DELAY)
            => f.code \in usedAuthCodes)
  /\ [](\A f, g \in Pending : f.code = g.code => f = g)
  /\ [][(lastCall'.n = lastCall.n + 1 /\ lastCall'.code \in usedAuthCodes)
          => (lastCall'.thrown = "used" /\ fetches' = fetches)]_vars

CodeSingleUseWitness ==
  /\ lastCall.thrown = "used"
  /\ \E f \in Pending : f.code = lastCall.code
  /\ \E f \in fetches : f.state = "ok" /\ f.code \notin usedAuthCodes

\* sign-in attempts made one after the other, each with the code its
\* redirect brought back
InitCooldown == Init /\ role = "default" /\ ~isAuthenticated /\ authStorage = SignedOut

NextCooldown ==
  \/ TimePasses
  \/ Pending = {} /\ exchangeDiscordCode(FreshCodes[lastCall.n + 1])
  \/ \E f \in fetches, outcome \in {"ok", "notOk", "error"} :
       exchangeDiscordCode_fetch(f, outcome)
  \/ \E timer \in timers : exchangeDiscordCode_setTimeout(timer)

SpecCooldown == InitCooldown /\ [][NextCooldown]_vars

\* the time the last non-OK response arrived, 0 when there was none
LastFailureAt ==
  LET F == {f \in fetches : f.state = "notOk"}
  IN  IF F = {} THEN 0 ELSE CHOOSE a \in {f.at : f \in F} : \A f \in F : f.at <= a

\* C30 (login cooldown): with 3 failures counted, a call made less than
\* 60 s after the last failure throws without issuing a request; a call
\* made 60 s or more after it is attempted with the counter reset; a
\* successful exchange sets the counter to 0
LoginCooldown ==
  [][/\ (/\ lastCall'.n = lastCall.n + 1
         /\ failedAttempts >= MAX_FAILED_ATTEMPTS
         /\ DateNow - LastFailureAt < COOLDOWN_PERIOD)
          => (lastCall'.thrown = "cooldown" /\ fetches' = fetches)
     /\ (/\ lastCall'.n = lastCall.n + 1
         /\ failedAttempts >= MAX_FAILED_ATTEMPTS
         /\ DateNow - LastFailureAt >= COOLDOWN_PERIOD)
          => (lastCall'.thrown = "none" /\ failedAttempts' = 0 /\ fetches' # fetches)
     /\ (\E f \in fetches' \ fetches : f.state = "ok") => failedAttempts' = 0]_vars

====
